---- MODULE Spec2Model ----
(***************************************************************************)
(* A model of the chat service's WebSocket consumer (apps/chat/consumers), *)
(* its HTTP views (apps/chat/views) and the moderation commands            *)
(* (apps/moderation/views), over the Django store they share.              *)
(*                                                                         *)
(* A nullable column is a set: {} is NULL, {v} holds v.  A timestamp is a  *)
(* natural number, advanced by Tick.                                       *)
(***************************************************************************)
EXTENDS Integers, Sequences, FiniteSets, TLC

\* ------------------------------------------------------------------ bounds
MaxTime == 3
MaxHandles == 2
MaxActions == 2
MaxMutes == 2
MaxMessages == 1
MaxMailbox == 2
MaxChecks == 2
MaxNotifications == 3
MaxSaved == 2

\* ---------------------------------------------------------------- universe
Anon == "anon"
Users == {"staff", "owner", "u"}
Rooms == {"pub", "priv"}
NoRoom == "none"
Slugs == Rooms \cup {NoRoom}
Handles == 1 .. MaxHandles
Durations == {{}, {1}}

\* a variant of is_authenticated that takes every client for authenticated
is_authenticated_always(u) == TRUE

\* auth.User.is_authenticated: AnonymousUser is the one unauthenticated user
is_authenticated(u) == u # Anon

\* auth.User.is_staff / is_superuser
is_staff(u) == u = "staff"

is_superuser(u) == u = "staff"

\* Room.created_by
created_by(r) == "owner"

\* Room.room_type
room_type(r) == IF r = "pub" THEN "public" ELSE "private"

\* the chat_<slug> group of a room
room_group_name(slug) == <<"chat", slug>>

\* the user_<id>_<slug> group of a user in a room
user_group_name(u, slug) == <<"user", u, slug>>

VARIABLES
    now,          \* timezone.now()
    memberships,  \* RoomMembership rows
    actions,      \* ModerationAction rows, by id
    mutes,        \* RoomMute rows
    mutePk,       \* the last primary key given to a RoomMute row
    warnings,     \* Warning rows, by id
    profile,      \* UserProfile rows, by user
    messages,     \* Message rows, by id
    notifications,\* Notification rows, by id
    sess,         \* the consumer instance of each connection
    room_users,   \* ChatConsumer.room_users
    groups,       \* channel layer: the channels of each group
    mailbox,      \* channel layer: the events queued for each channel
    checks,       \* HTTP resolver calls in flight
    ev,           \* what the last step did
    sent,         \* frames sent to clients by the last step
    pub           \* events given to group_send by the last step

vars == <<now, memberships, actions, mutes, mutePk, warnings, profile, messages,
          notifications, sess, room_users, groups, mailbox, checks, ev, sent, pub>>

store == <<memberships, actions, mutes, mutePk, warnings, profile, messages,
          notifications>>

conns == <<sess, room_users, groups, mailbox>>

\* ------------------------------------------------------------------- store
\* a variant of is_member that takes every user for a member of every room
is_member_anyone(u, r) == TRUE

\* RoomMembership.objects.filter(user=u, room=r).exists()
is_member(u, r) == \E m \in memberships : m.user = u /\ m.room = r

\* a variant of ExpiresGtNowOrNull without the isnull branch
ExpiresGtNow(expires, t) == \E e \in expires : e > t

\* Q(expires_at__gt=timezone.now()) | Q(expires_at__isnull=True)
ExpiresGtNowOrNull(expires, t) == expires = {} \/ \E e \in expires : e > t

\* a variant of ExpiredAt with the comparison turned round
ExpiredAtReversed(expires, t) == \E e \in expires : t < e

\* `x.expires_at and timezone.now() > x.expires_at`
ExpiredAt(expires, t) == \E e \in expires : t > e

\* UserProfile.is_currently_banned
is_currently_banned(u) ==
    IF ~profile[u].is_banned THEN FALSE
    ELSE IF profile[u].banned_until # {}
         THEN \E e \in profile[u].banned_until : now < e
         ELSE TRUE

\* the ids of the rows ModerationAction.objects.filter(target_user=u, room=r,
\* action_type='ban', is_active=True) selects
ActiveBanIds(u, r) ==
    {i \in DOMAIN actions : /\ actions[i].target = u
                            /\ actions[i].room = r
                            /\ actions[i].type = "ban"
                            /\ actions[i].active}

\* the largest element of a non-empty set of ids
MaxOf(S) == CHOOSE i \in S : \A j \in S : j <= i

\* .first() under Meta.ordering = ['-created_at']: the newest row, {} if none
FirstActiveBan(u, r) ==
    IF ActiveBanIds(u, r) = {} THEN {} ELSE {MaxOf(ActiveBanIds(u, r))}

\* RoomMute.objects.filter(user=u, room=r).first(): the row, {} if none
FirstMute(u, r) == {m \in mutes : m.user = u /\ m.room = r}

\* ModerationAction(...).save(): a new row, its id the next one
NewAction(acts, type, moderator, target, room, expires) ==
    Append(acts, [id |-> Len(acts) + 1, type |-> type, moderator |-> moderator,
                  target |-> target, room |-> room, expires |-> expires,
                  active |-> TRUE])

\* ban.save() of a row read earlier: UPDATE of every column, by primary key
SaveAction(acts, row) == [acts EXCEPT ![row.id] = row]

\* a variant of DeleteMute that deletes by room instead of by primary key
DeleteMuteByRoom(ms, row) == {m \in ms : m.room # row.room}

\* mute.delete() of a row read earlier: DELETE by primary key
DeleteMute(ms, row) == {m \in ms : m.id # row.id}

\* ------------------------------------------------- moderation state resolver
\* is_user_banned_from_room after its query: `bans` is what .first() returned,
\* `t` the time of the expiry test; the answer and the rows after ban.save()
BanResolve(acts, bans, t) ==
    IF bans = {} THEN [banned |-> FALSE, actions |-> acts]
    ELSE LET ban == CHOOSE b \in bans : TRUE
         IN  IF ExpiredAt(ban.expires, t)
             THEN [banned |-> FALSE,
                   actions |-> SaveAction(acts, [ban EXCEPT !.active = FALSE])]
             ELSE [banned |-> TRUE, actions |-> acts]

\* the row .first() returns in is_user_banned_from_room, {} if none
BanQuery(u, r) == {actions[i] : i \in FirstActiveBan(u, r)}

\* is_user_banned_from_room(user, room), run without interruption
is_user_banned_from_room(u, r) == BanResolve(actions, BanQuery(u, r), now)

\* is_user_muted after its query: `found` is what .first() returned
MuteResolve(ms, found, t) ==
    IF found = {} THEN [muted |-> FALSE, mutes |-> ms]
    ELSE LET mute == CHOOSE m \in found : TRUE
         IN  IF ExpiredAt(mute.expires, t)
             THEN [muted |-> FALSE, mutes |-> DeleteMute(ms, mute)]
             ELSE [muted |-> TRUE, mutes |-> ms]

\* is_user_muted(user, room), run without interruption on the rows `ms`
is_user_muted(ms, u, r) ==
    MuteResolve(ms, {m \in ms : m.user = u /\ m.room = r}, now)

\* a variant of check_room_access that asks no Membership of a public room
check_room_access_public_open(u, slug) ==
    IF slug \notin Rooms THEN FALSE
    ELSE IF ~is_member(u, slug) /\ room_type(slug) = "private" THEN FALSE
    ELSE ~\E i \in ActiveBanIds(u, slug) :
              ExpiresGtNowOrNull(actions[i].expires, now)

\* ChatConsumer.check_room_access: a member of an existing room with no
\* active ban whose expiry is null or later than now
check_room_access(u, slug) ==
    IF slug \notin Rooms THEN FALSE
    ELSE IF ~is_member(u, slug) THEN FALSE
    ELSE ~\E i \in ActiveBanIds(u, slug) :
              ExpiresGtNowOrNull(actions[i].expires, now)

\* ChatConsumer.check_mute_status: a mute row whose expiry is null or later
check_mute_status(u, r) ==
    \E m \in FirstMute(u, r) : ExpiresGtNowOrNull(m.expires, now)

\* a variant of can_moderate_room that lets every member of the room moderate
can_moderate_room_any_member(u, r) ==
    \/ is_staff(u) \/ is_superuser(u)
    \/ created_by(r) = u
    \/ \E m \in memberships : m.user = u /\ m.room = r

\* can_moderate_room(user, room)
can_moderate_room(u, r) ==
    \/ is_staff(u) \/ is_superuser(u)
    \/ created_by(r) = u
    \/ \E m \in memberships :
           m.user = u /\ m.room = r /\ m.role \in {"admin", "moderator"}

\* a variant of get_or_create_membership that always creates the row
create_membership(ms, u, r) == ms \cup {[user |-> u, room |-> r, role |-> "member"]}

\* RoomMembership.objects.get_or_create(user=u, room=r, defaults={'role': 'member'})
get_or_create_membership(ms, u, r) ==
    IF \E m \in ms : m.user = u /\ m.room = r THEN ms
    ELSE ms \cup {[user |-> u, room |-> r, role |-> "member"]}

\* RoomMembership.objects.filter(user=u, room=r).delete()
delete_membership(ms, u, r) == {m \in ms : ~(m.user = u /\ m.room = r)}

\* ------------------------------------------------------------ channel layer
\* the channels of a group whose consumer still reads its queue (a consumer that
\* died of an exception or has closed its socket handles no further event; what
\* is sent to it is not kept)
Readers(chans) == {c \in chans : sess[c].pc \notin {"crashed", "closing"}}

\* every queue of the channels `chans` has room for n more events
CanSend(chans, n) == \A c \in Readers(chans) : Len(mailbox[c]) + n <= MaxMailbox

\* a variant of GroupSend that reaches one channel of the group only
GroupSendOne(mb, chans, es) ==
    [c \in Handles |->
        IF c \in Readers(chans) /\ \A d \in Readers(chans) : c <= d
        THEN mb[c] \o es ELSE mb[c]]

\* a variant of GroupSend that puts the events at the front of the queues
GroupSendFront(mb, chans, es) ==
    [c \in Handles |-> IF c \in Readers(chans) THEN es \o mb[c] ELSE mb[c]]

\* channel_layer.group_send to a group whose channels are `chans`, for each
\* event of es in turn: appended to the queue of every channel of the group
GroupSend(mb, chans, es) ==
    [c \in Handles |-> IF c \in Readers(chans) THEN mb[c] \o es ELSE mb[c]]

\* the groups a chat consumer may join
AllGroups ==
    {room_group_name(s) : s \in Slugs} \cup
    {user_group_name(u, s) : u \in Users, s \in Slugs}

\* an event handed to group_send
Event(type, u, data) == [type |-> type, user_id |-> u, data |-> data]

\* what a step records of itself
Ev(op, h, u, r, res, arg) ==
    [op |-> op, h |-> h, user |-> u, room |-> r, res |-> res, arg |-> arg]

\* A store write of a handler may raise (the database refuses it or cannot be
\* reached): fault = 0 when none does, fault = k when the handler's k-th write
\* raises. The writes before it are kept, for no handler opens a transaction;
\* the statements after it do not run.
performed(k, fault) == fault = 0 \/ k < fault

\* a variant of group_send_after_writes that publishes before the writes
group_send_before_writes(out, fault) == out

\* what a handler publishes: its group_send calls come after its last write,
\* so they run only when no write raised
group_send_after_writes(out, fault) == IF fault = 0 THEN out ELSE <<>>

\* --------------------------------------------------------------------- Init
Init ==
    /\ now = 1
    /\ memberships = {[user |-> created_by(r), room |-> r, role |-> "admin"] : r \in Rooms}
    /\ actions = <<>>
    /\ mutes = {}
    /\ mutePk = 0
    /\ warnings = <<>>
    /\ profile = [u \in Users |-> [is_banned |-> FALSE, banned_until |-> {},
                                   online_status |-> "offline"]]
    /\ messages = <<>>
    /\ notifications = <<>>
    /\ sess = [h \in Handles |-> [pc |-> "new", user |-> Anon, slug |-> NoRoom,
                                  is_muted |-> FALSE, pending |-> {}]]
    /\ room_users = [s \in Slugs |-> [u \in Users |-> {}]]
    /\ groups = [g \in AllGroups |-> {}]
    /\ mailbox = [h \in Handles |-> <<>>]
    /\ checks = [c \in 1 .. MaxChecks |-> [pc |-> "idle"]]
    /\ ev = Ev("init", 0, Anon, NoRoom, "", "")
    /\ sent = <<>>
    /\ pub = <<>>

\* time passes
Tick ==
    /\ now < MaxTime
    /\ now' = now + 1
    /\ ev' = Ev("tick", 0, Anon, NoRoom, "", "")
    /\ sent' = <<>> /\ pub' = <<>>
    /\ UNCHANGED <<store, conns, checks>>

\* ------------------------------------------------------------- ChatConsumer
\* self.send(text_data=json.dumps(...)) on connection h
Frame(h, type, data) == [to |-> h, type |-> type, data |-> data]

\* send_error(message)
send_error(h, message) == Frame(h, "error", message)

\* set_user_online(is_online) on the profile rows
set_user_online(prof, u, is_online) ==
    [prof EXCEPT ![u].online_status = IF is_online THEN "online" ELSE "offline"]

\* connect, up to the access decision: the handshake of user u (Anon: no
\* valid identity) for the room slug
Connect(h, u, slug) ==
    /\ sess[h].pc = "new"
    /\ LET res == IF ~is_authenticated(u) THEN "unauthenticated"
                  ELSE IF ~check_room_access(u, slug) THEN "denied"
                  ELSE "allowed"
       IN  /\ sess' = [sess EXCEPT ![h] = [pc |-> IF res = "allowed" THEN "checked"
                                                  ELSE "rejected",
                                           user |-> u, slug |-> slug,
                                           is_muted |-> FALSE, pending |-> {}]]
           /\ ev' = Ev("connect", h, u, slug, res, "")
    /\ sent' = <<>> /\ pub' = <<>>
    /\ UNCHANGED <<now, store, room_users, groups, mailbox, checks>>

\* connect, after the access decision: group_add twice, accept, room_users,
\* the mute flag, the 'online' status event and the profile
Join(h) ==
    /\ sess[h].pc = "checked"
    /\ LET u == sess[h].user
           slug == sess[h].slug
           rg == room_group_name(slug)
           online == Event("user_status_change", u, "online")
       IN  /\ CanSend(groups[rg] \cup {h}, 1)
           /\ groups' = [groups EXCEPT ![rg] = @ \cup {h},
                                       ![user_group_name(u, slug)] = @ \cup {h}]
           /\ room_users' = [room_users EXCEPT ![slug][u] = {h}]
           /\ sess' = [sess EXCEPT ![h].pc = "joined",
                                   ![h].is_muted = check_mute_status(u, slug)]
           /\ mailbox' = GroupSend(mailbox, groups[rg] \cup {h}, <<online>>)
           /\ pub' = <<[group |-> rg, event |-> online]>>
           /\ profile' = set_user_online(profile, u, TRUE)
           /\ ev' = Ev("join", h, u, slug, "joined", "")
    /\ sent' = <<>>
    /\ UNCHANGED <<now, memberships, actions, mutes, mutePk, warnings, messages, notifications, checks>>

\* disconnect: del ChatConsumer.room_users[room_slug][user.id] when the key is
\* there, whichever connection h runs it
unregister(ru, slug, u, h) ==
    IF u \in Users /\ ru[slug][u] # {} THEN [ru EXCEPT ![slug][u] = {}] ELSE ru

\* a variant of awaits_disconnect under which a closed connection is torn down
\* again
awaits_disconnect_again(pc) == pc \in {"rejected", "joined", "closing", "closed"}

\* the server sends websocket.disconnect once to a consumer whose socket it
\* closes: on the client's close of a joined session, or on the consumer's own
\* close() during connect or in force_disconnect
awaits_disconnect(pc) == pc \in {"rejected", "joined", "closing"}

\* disconnect(close_code): after the client closed, or after the server's own
\* close() during connect or in force_disconnect
Disconnect(h) ==
    /\ awaits_disconnect(sess[h].pc)
    /\ LET u == sess[h].user
           slug == sess[h].slug
           rg == room_group_name(slug)
           left == groups[rg] \ {h}
           offline == Event("user_status_change", u, "offline")
       IN  /\ room_users' = unregister(room_users, slug, u, h)
           /\ groups' = [g \in AllGroups |->
                           IF g = rg \/ (u \in Users /\ g = user_group_name(u, slug))
                           THEN groups[g] \ {h} ELSE groups[g]]
           /\ IF is_authenticated(u)
              THEN /\ CanSend(left, 1)
                   /\ mailbox' = [GroupSend(mailbox, left, <<offline>>) EXCEPT ![h] = <<>>]
                   /\ pub' = <<[group |-> rg, event |-> offline]>>
                   /\ profile' = set_user_online(profile, u, FALSE)
              ELSE /\ mailbox' = [mailbox EXCEPT ![h] = <<>>]
                   /\ pub' = <<>>
                   /\ profile' = profile
           /\ sess' = [sess EXCEPT ![h].pc = "closed"]
           /\ ev' = Ev("disconnect", h, u, slug, sess[h].pc, mailbox[h])
    /\ sent' = <<>>
    /\ UNCHANGED <<now, memberships, actions, mutes, mutePk, warnings, messages, notifications, checks>>

\* an inbound frame: text that is no JSON, JSON that is no object, or an object
\* with its 'type' ('message' when absent), its 'message' (absent, blank after
\* strip(), a text, or no string), whether it carries a non-empty 'image_url'
\* and a 'message_id', and its 'is_typing' (False when absent)
ObjFrame(type, message, image_url, message_id) ==
    [kind |-> "object", type |-> type, message |-> message,
     image_url |-> image_url, message_id |-> message_id, is_typing |-> FALSE]

\* a 'typing' frame with its 'is_typing'
TypingFrame(is_typing) ==
    [ObjFrame("typing", "absent", FALSE, FALSE) EXCEPT !.is_typing = is_typing]

Frames ==
    {[kind |-> k, type |-> "", message |-> "absent", image_url |-> FALSE,
      message_id |-> FALSE, is_typing |-> FALSE] : k \in {"notjson", "notobject"}}
    \cup {ObjFrame(t, "absent", FALSE, FALSE) : t \in {"typing", "heartbeat", "other"}}
    \cup {TypingFrame(TRUE)}
    \cup {ObjFrame("message", m, FALSE, FALSE) : m \in {"absent", "blank", "text", "nonstr"}}
    \cup {ObjFrame("message", "blank", TRUE, TRUE), ObjFrame("message", "text", FALSE, TRUE)}

\* the frames whose 'type' is 'message'
MessageFrames == {f \in Frames : f.kind = "object" /\ f.type = "message"}

\* save_message(content): Message.objects.create(room, sender, content)
save_message(msgs, r, u, content) ==
    Append(msgs, [id |-> Len(msgs) + 1, room |-> r, sender |-> u, content |-> content,
                  is_deleted |-> FALSE, deleted_by |-> {}, deleted_at |-> {}])

\* a variant of handle_message_outcome that drops an empty message before it
\* checks the mute
handle_message_outcome_empty_first(u, r, f) ==
    IF f.message = "nonstr" THEN "crash"
    ELSE IF f.message # "text" /\ ~f.image_url THEN "ignored"
    ELSE IF check_mute_status(u, r) THEN "muted"
    ELSE IF ~f.message_id /\ f.message = "text" THEN "saved_sent"
    ELSE "sent"

\* how handle_message(data) ends for user u in room r
handle_message_outcome(u, r, f) ==
    IF f.message = "nonstr" THEN "crash"
    ELSE IF check_mute_status(u, r) THEN "muted"
    ELSE IF f.message # "text" /\ ~f.image_url THEN "ignored"
    ELSE IF ~f.message_id /\ f.message = "text" THEN "saved_sent"
    ELSE "sent"

\* how receive(text_data) ends
receive_outcome(u, r, f) ==
    IF f.kind = "notjson" THEN "invalid"
    ELSE IF f.kind = "notobject" THEN "crash"
    ELSE IF f.type = "message" THEN handle_message_outcome(u, r, f)
    ELSE IF f.type = "typing" THEN "typing"
    ELSE IF f.type = "heartbeat" THEN "heartbeat"
    ELSE "unknown"

\* a variant of rows_after_check_mute_status that deletes an expired row, as
\* is_user_muted does
rows_after_is_user_muted(ms, u, r) == is_user_muted(ms, u, r).mutes

\* the RoomMute rows after check_mute_status, which only reads them
rows_after_check_mute_status(ms, u, r) == ms

\* receive(text_data) with handle_message, handle_typing and handle_heartbeat;
\* the one write whose failure is followed is save_message's (fault = 1), whose
\* exception leaves receive() as every other does
Receive_with(h, f, fault) ==
    /\ sess[h].pc = "joined"
    /\ LET u == sess[h].user
           r == sess[h].slug
           rg == room_group_name(r)
           base == receive_outcome(u, r, f)
           res == IF base = "saved_sent" /\ fault # 0 THEN "crash" ELSE base
           saved == IF res = "saved_sent" THEN save_message(messages, r, u, f.message)
                    ELSE messages
           chat == Event("chat_message", u,
                         [message |-> f.message, image_url |-> f.image_url,
                          message_id |-> IF res = "saved_sent" THEN {Len(saved)}
                                         ELSE IF f.message_id THEN {0} ELSE {}])
           typing == Event("typing_indicator", u,
                           [username |-> u, is_typing |-> f.is_typing])
           out == IF base \in {"saved_sent", "sent"}
                  THEN group_send_after_writes(<<chat>>, fault)
                  ELSE IF res = "typing" THEN <<typing>> ELSE <<>>
       IN  /\ fault # 0 => base = "saved_sent"
           /\ res = "saved_sent" => Len(messages) < MaxMessages
           /\ CanSend(groups[rg], Len(out))
           /\ messages' = saved
           /\ mutes' = IF base \in {"muted", "ignored", "saved_sent", "sent"}
                       THEN rows_after_check_mute_status(mutes, u, r)
                       ELSE mutes
           /\ mailbox' = GroupSend(mailbox, groups[rg], out)
           /\ pub' = [i \in 1 .. Len(out) |-> [group |-> rg, event |-> out[i]]]
           /\ sent' = IF res = "invalid" THEN <<send_error(h, "Invalid message format")>>
                      ELSE IF res = "muted" THEN <<send_error(h, "You are muted in this room")>>
                      ELSE <<>>
           /\ profile' = IF res = "heartbeat" THEN set_user_online(profile, u, TRUE)
                         ELSE profile
           /\ sess' = IF res = "crash" THEN [sess EXCEPT ![h].pc = "crashed"] ELSE sess
           /\ ev' = Ev("receive", h, u, r, res, f)
    /\ UNCHANGED <<now, memberships, actions, mutePk, warnings, notifications, room_users,
                   groups, checks>>

\* receive(text_data) when no write raises
Receive(h, f) == Receive_with(h, f, 0)

\* handle_message of a text frame with no image and no id, one await at a
\* time; the consumer handles no other event until the handler returns. First
\* `await self.check_mute_status()`, and send_error and return when muted.
handle_message_check(h) ==
    /\ sess[h].pc = "joined"
    /\ LET u == sess[h].user
           r == sess[h].slug
           muted == check_mute_status(u, r)
       IN  /\ sess' = [sess EXCEPT ![h].pc = IF muted THEN "joined" ELSE "msg_checked"]
           /\ sent' = IF muted THEN <<send_error(h, "You are muted in this room")>>
                      ELSE <<>>
           /\ ev' = Ev("handle_message_check", h, u, r,
                       IF muted THEN "muted" ELSE "checked", "")
    /\ pub' = <<>>
    /\ UNCHANGED <<now, store, room_users, groups, mailbox, checks>>

\* then `message_id = await self.save_message(message)`
handle_message_save(h) ==
    /\ sess[h].pc = "msg_checked"
    /\ Len(messages) < MaxSaved
    /\ LET u == sess[h].user
           r == sess[h].slug
           saved == save_message(messages, r, u, "text")
       IN  /\ messages' = saved
           /\ sess' = [sess EXCEPT ![h].pc = "msg_saved", ![h].pending = {Len(saved)}]
           /\ ev' = Ev("handle_message_save", h, u, r, "saved", Len(saved))
    /\ sent' = <<>> /\ pub' = <<>>
    /\ UNCHANGED <<now, memberships, actions, mutes, mutePk, warnings, profile, notifications,
                   room_users, groups, mailbox, checks>>

\* then `await self.channel_layer.group_send(self.room_group_name, ...)`
handle_message_send(h) ==
    /\ sess[h].pc = "msg_saved"
    /\ LET u == sess[h].user
           r == sess[h].slug
           rg == room_group_name(r)
           chat == Event("chat_message", u,
                         [message |-> "text", image_url |-> FALSE,
                          message_id |-> sess[h].pending])
       IN  /\ CanSend(groups[rg], 1)
           /\ mailbox' = GroupSend(mailbox, groups[rg], <<chat>>)
           /\ pub' = <<[group |-> rg, event |-> chat]>>
           /\ sess' = [sess EXCEPT ![h].pc = "joined", ![h].pending = {}]
           /\ ev' = Ev("handle_message_send", h, u, r, "sent", chat)
    /\ sent' = <<>>
    /\ UNCHANGED <<now, store, room_users, groups, checks>>

\* a variant of for_other_user that lets every session handle every event
for_other_user_never(e, u) == FALSE

\* mute_status, force_disconnect, warning_received: target_user_id and
\* target_user_id != self.user.id, on which the handler returns at once
for_other_user(e, u) == e.user_id \in Users /\ e.user_id # u

\* a variant of force_disconnect that closes the connection first
force_disconnect_close_first(h, e) ==
    <<[type |-> "websocket.close"],
      [type |-> "websocket.send", frame |-> Frame(h, "force_disconnect", e.data)]>>

\* force_disconnect(event) of an event for the current user: what the handler
\* hands to the server, in order
force_disconnect(h, e) ==
    <<[type |-> "websocket.send", frame |-> Frame(h, "force_disconnect", e.data)],
      [type |-> "websocket.close"]>>

\* the index of the first websocket.close in a handler's output, 0 if none
FirstClose(out) ==
    IF \E i \in DOMAIN out : out[i].type = "websocket.close"
    THEN CHOOSE i \in DOMAIN out :
             /\ out[i].type = "websocket.close"
             /\ \A j \in 1 .. i - 1 : out[j].type # "websocket.close"
    ELSE 0

\* the frames of a handler's output that reach the client: those handed over
\* while the socket is open
FramesSent(out) ==
    LET n == IF FirstClose(out) = 0 THEN Len(out) ELSE FirstClose(out) - 1
    IN  [i \in 1 .. n |-> out[i].frame]

\* a variant of own_typing that holds of no event
own_typing_never(e, u) == FALSE

\* typing_indicator: event.get('user_id') == self.user.id, on which the handler
\* returns at once
own_typing(e, u) == e.user_id = u

\* the handler of the event at the head of connection h's queue: chat_message,
\* typing_indicator, message_deleted, user_status_change, member_added,
\* member_removed, mute_status, force_disconnect or warning_received
Deliver(h) ==
    /\ sess[h].pc = "joined"
    /\ mailbox[h] # <<>>
    /\ LET e == Head(mailbox[h])
           u == sess[h].user
           targeted == e.type \in {"mute_status", "force_disconnect", "warning_received"}
           skip == \/ e.type = "typing_indicator" /\ own_typing(e, u)
                   \/ targeted /\ for_other_user(e, u)
           type == CASE e.type = "chat_message" -> "message"
                     [] e.type = "typing_indicator" -> "typing"
                     [] e.type = "user_status_change" -> "user_status"
                     [] e.type = "warning_received" -> "warning"
                     [] OTHER -> e.type
           out == IF skip THEN <<>>
                  ELSE IF e.type = "force_disconnect" THEN force_disconnect(h, e)
                  ELSE <<[type |-> "websocket.send", frame |-> Frame(h, type, e.data)]>>
       IN  /\ mailbox' = [mailbox EXCEPT ![h] = Tail(@)]
           /\ sent' = FramesSent(out)
           /\ sess' = IF FirstClose(out) # 0
                      THEN [sess EXCEPT ![h].pc = "closing"]
                      ELSE IF ~skip /\ e.type = "mute_status"
                      THEN [sess EXCEPT ![h].is_muted = e.data.is_muted]
                      ELSE sess
           /\ ev' = Ev("deliver", h, u, sess[h].slug, IF skip THEN "skipped" ELSE type, e)
    /\ pub' = <<>>
    /\ UNCHANGED <<now, store, room_users, groups, checks>>

\* ------------------------------------------------------------ apps/chat/views
\* Notification.objects.create(recipient, notification_type, related_room)
NewNotification(ns, u, type, r) ==
    Append(ns, [id |-> Len(ns) + 1, recipient |-> u, type |-> type, room |-> r])

\* room_detail(request, slug) by user u
room_detail(u, r) ==
    /\ LET ban == is_user_banned_from_room(u, r)
           res == IF ban.banned THEN "banned"
                  ELSE IF is_currently_banned(u) THEN "globally_banned"
                  ELSE IF room_type(r) = "private" /\ ~is_member(u, r) /\ created_by(r) # u
                  THEN "no_access"
                  ELSE "ok"
       IN  /\ actions' = ban.actions
           /\ memberships' = IF res = "ok" /\ room_type(r) = "public"
                             THEN get_or_create_membership(memberships, u, r)
                             ELSE memberships
           /\ mutes' = IF res = "ok" THEN is_user_muted(mutes, u, r).mutes ELSE mutes
           /\ ev' = Ev("room_detail", 0, u, r, res,
                       [is_muted |-> res = "ok" /\ is_user_muted(mutes, u, r).muted])
    /\ sent' = <<>> /\ pub' = <<>>
    /\ UNCHANGED <<now, mutePk, warnings, profile, messages, notifications, conns, checks>>

\* join_room(request, slug) by user u
join_room(u, r) ==
    /\ LET ban == is_user_banned_from_room(u, r)
           rg == room_group_name(r)
           res == IF ban.banned THEN "banned"
                  ELSE IF room_type(r) = "private" THEN "private"
                  ELSE IF is_member(u, r) THEN "already" ELSE "created"
           added == Event("member_added", u, [is_owner |-> FALSE])
           out == IF res = "created" THEN <<added>> ELSE <<>>
       IN  /\ CanSend(groups[rg], Len(out))
           /\ actions' = ban.actions
           /\ memberships' = IF res = "created"
                             THEN get_or_create_membership(memberships, u, r)
                             ELSE memberships
           /\ mailbox' = GroupSend(mailbox, groups[rg], out)
           /\ pub' = [i \in 1 .. Len(out) |-> [group |-> rg, event |-> out[i]]]
           /\ ev' = Ev("join_room", 0, u, r, res, "")
    /\ sent' = <<>>
    /\ UNCHANGED <<now, mutes, mutePk, warnings, profile, messages, notifications, sess,
                   room_users, groups, checks>>

\* leave_room(request, slug) by user u, as a POST
leave_room(u, r) ==
    /\ LET rg == room_group_name(r)
           res == IF created_by(r) = u THEN "owner"
                  ELSE IF is_member(u, r) THEN "left" ELSE "not_member"
           removed == Event("member_removed", u, "")
           out == IF res = "left" THEN <<removed>> ELSE <<>>
       IN  /\ CanSend(groups[rg], Len(out))
           /\ memberships' = IF res = "left" THEN delete_membership(memberships, u, r)
                             ELSE memberships
           /\ mailbox' = GroupSend(mailbox, groups[rg], out)
           /\ pub' = [i \in 1 .. Len(out) |-> [group |-> rg, event |-> out[i]]]
           /\ ev' = Ev("leave_room", 0, u, r, res, "")
    /\ sent' = <<>>
    /\ UNCHANGED <<now, actions, mutes, mutePk, warnings, profile, messages, notifications, sess,
                   room_users, groups, checks>>

\* invite_user(request, slug) by `actor`, as a POST naming the one user u
invite_user(actor, u, r) ==
    /\ LET rg == room_group_name(r)
           res == IF room_type(r) # "private" THEN "public"
                  ELSE IF ~can_moderate_room(actor, r) THEN "forbidden"
                  ELSE IF is_member(u, r) THEN "already" ELSE "invited"
           added == Event("member_added", u, [is_owner |-> FALSE])
           out == IF res = "invited" THEN <<added>> ELSE <<>>
       IN  /\ res = "invited" => Len(notifications) < MaxNotifications
           /\ CanSend(groups[rg], Len(out))
           /\ memberships' = IF res = "invited"
                             THEN get_or_create_membership(memberships, u, r)
                             ELSE memberships
           /\ notifications' = IF res = "invited"
                               THEN NewNotification(notifications, u, "invite", r)
                               ELSE notifications
           /\ mailbox' = GroupSend(mailbox, groups[rg], out)
           /\ pub' = [i \in 1 .. Len(out) |-> [group |-> rg, event |-> out[i]]]
           /\ ev' = Ev("invite_user", 0, u, r, res, actor)
    /\ sent' = <<>>
    /\ UNCHANGED <<now, actions, mutes, mutePk, warnings, profile, messages, sess,
                   room_users, groups, checks>>

\* api_send_message(request, slug) by user u, as a POST whose content is a
\* text or blank, with or without an image
api_send_message(u, r, content, image) ==
    /\ LET ban == is_user_banned_from_room(u, r)
           mute == is_user_muted(mutes, u, r)
           res == IF ban.banned THEN "banned"
                  ELSE IF mute.muted THEN "muted"
                  ELSE IF content # "text" /\ ~image THEN "empty"
                  ELSE "created"
       IN  /\ res = "created" => Len(messages) < MaxMessages
           /\ actions' = ban.actions
           /\ mutes' = IF res = "banned" THEN mutes ELSE mute.mutes
           /\ messages' = IF res = "created" THEN save_message(messages, r, u, content)
                          ELSE messages
           /\ ev' = Ev("api_send_message", 0, u, r, res, "")
    /\ sent' = <<>> /\ pub' = <<>>
    /\ UNCHANGED <<now, memberships, mutePk, warnings, profile, notifications, conns, checks>>

\* ------------------------------------------------------ apps/moderation/views
\* expires_at of a command given a duration in minutes ({}: none given)
expires_at(duration) == {now + d : d \in duration}

\* how ban_user answers before it writes anything
\* a variant of ban_user_precheck without the refusal to ban the room's owner
ban_user_precheck_owner_unchecked(actor, target, r) ==
    IF r # NoRoom /\ ~can_moderate_room(actor, r) THEN "forbidden"
    ELSE IF r = NoRoom /\ ~is_staff(actor) /\ ~is_superuser(actor) THEN "forbidden"
    ELSE IF target = actor THEN "self"
    ELSE IF is_staff(target) /\ ~is_superuser(actor) THEN "staff"
    ELSE "post"

\* ban_user before the POST branch: the permission check and the refusals
ban_user_precheck(actor, target, r) ==
    IF r # NoRoom /\ ~can_moderate_room(actor, r) THEN "forbidden"
    ELSE IF r = NoRoom /\ ~is_staff(actor) /\ ~is_superuser(actor) THEN "forbidden"
    ELSE IF target = actor THEN "self"
    ELSE IF r # NoRoom /\ target = created_by(r) THEN "owner"
    ELSE IF is_staff(target) /\ ~is_superuser(actor) THEN "staff"
    ELSE "post"

\* ban_user(request, user_id, room_id) by `actor`, as a POST with a duration and
\* the is_global box; r = NoRoom when the URL names no room
ban_user(actor, target, r, duration, is_global) ==
    /\ LET pre == ban_user_precheck(actor, target, r)
           rg == room_group_name(r)
           global == is_global /\ (is_staff(actor) \/ is_superuser(actor))
           action_room == IF global THEN NoRoom ELSE r
           \* " from " + room.name with no room raises; the rows above it stay
           res == IF pre # "post" THEN pre
                  ELSE IF ~is_global /\ r = NoRoom THEN "error"
                  ELSE IF global THEN "banned_globally" ELSE "banned"
           done == res \in {"banned_globally", "banned"}
           out == IF done /\ r # NoRoom
                  THEN <<Event("force_disconnect", target, [action |-> "ban", reason |-> r]),
                         Event("member_removed", target, "")>>
                  ELSE <<>>
       IN  /\ pre = "post" => Len(actions) < MaxActions
           /\ done => Len(notifications) < MaxNotifications
           /\ CanSend(groups[rg], Len(out))
           /\ profile' = IF pre = "post" /\ global
                         THEN [profile EXCEPT ![target].is_banned = TRUE,
                                              ![target].banned_until = expires_at(duration)]
                         ELSE profile
           /\ memberships' = IF pre = "post" /\ ~global
                             THEN delete_membership(memberships, target, r)
                             ELSE memberships
           /\ actions' = IF pre = "post"
                         THEN NewAction(actions, "ban", actor, target, action_room,
                                        expires_at(duration))
                         ELSE actions
           /\ notifications' = IF done
                               THEN NewNotification(notifications, target, "moderation",
                                                    action_room)
                               ELSE notifications
           /\ mailbox' = GroupSend(mailbox, groups[rg], out)
           /\ pub' = [i \in 1 .. Len(out) |-> [group |-> rg, event |-> out[i]]]
           /\ ev' = Ev("ban_user", 0, target, r, res,
                       [actor |-> actor, is_global |-> is_global, duration |-> duration])
    /\ sent' = <<>>
    /\ UNCHANGED <<now, mutes, mutePk, warnings, messages, sess, room_users, groups, checks>>

\* a variant of update_or_create_mute that always inserts a new row
update_or_create_mute_insert(ms, pk, u, r, by, expires) ==
    ms \cup {[id |-> Cardinality(ms) + 1, user |-> u, room |-> r, muted_by |-> by,
              expires |-> expires]}

\* RoomMute.objects.update_or_create(user, room, defaults={muted_by, reason,
\* expires_at}): the row of (user, room) updated in place, or a new row
update_or_create_mute(ms, pk, u, r, by, expires) ==
    IF \E m \in ms : m.user = u /\ m.room = r
    THEN {IF m.user = u /\ m.room = r
          THEN [m EXCEPT !.muted_by = by, !.expires = expires] ELSE m : m \in ms}
    ELSE ms \cup {[id |-> pk + 1, user |-> u, room |-> r, muted_by |-> by,
                   expires |-> expires]}

\* mute_user(request, user_id, room_id) by `actor`, as a POST with a duration,
\* whose writes are update_or_create (1), the ModerationAction (2) and the
\* Notification (3)
mute_user_with(actor, target, r, duration, fault) ==
    /\ LET rg == room_group_name(r)
           res == IF ~can_moderate_room(actor, r) THEN "forbidden"
                  ELSE IF target = actor THEN "self"
                  ELSE IF target = created_by(r) THEN "owner"
                  ELSE IF fault # 0 THEN "error"
                  ELSE "muted"
           post == res \in {"error", "muted"}
           had == \E m \in mutes : m.user = target /\ m.room = r
           out == IF post
                  THEN group_send_after_writes(
                           <<Event("mute_status", target,
                                   [is_muted |-> TRUE,
                                    expires_at |-> expires_at(duration)])>>, fault)
                  ELSE <<>>
       IN  /\ post /\ performed(1, fault) => had \/ mutePk < MaxMutes
           /\ post /\ performed(2, fault) => Len(actions) < MaxActions
           /\ post /\ performed(3, fault) => Len(notifications) < MaxNotifications
           /\ CanSend(groups[rg], Len(out))
           /\ mutes' = IF post /\ performed(1, fault)
                       THEN update_or_create_mute(mutes, mutePk, target, r, actor,
                                                  expires_at(duration))
                       ELSE mutes
           /\ mutePk' = IF post /\ performed(1, fault) /\ ~had THEN mutePk + 1 ELSE mutePk
           /\ actions' = IF post /\ performed(2, fault)
                         THEN NewAction(actions, "mute", actor, target, r,
                                        expires_at(duration))
                         ELSE actions
           /\ notifications' = IF post /\ performed(3, fault)
                               THEN NewNotification(notifications, target, "moderation", r)
                               ELSE notifications
           /\ mailbox' = GroupSend(mailbox, groups[rg], out)
           /\ pub' = [i \in 1 .. Len(out) |-> [group |-> rg, event |-> out[i]]]
           /\ ev' = Ev("mute_user", 0, target, r, res,
                       [actor |-> actor, duration |-> duration, fault |-> fault])
    /\ sent' = <<>>
    /\ UNCHANGED <<now, memberships, warnings, profile, messages, sess, room_users, groups,
                   checks>>

\* mute_user when no write raises
mute_user(actor, target, r, duration) == mute_user_with(actor, target, r, duration, 0)

\* a variant of deactivate_bans that updates no row
deactivate_bans_skipped(acts, u, r) == acts

\* ModerationAction.objects.filter(target_user, room, action_type='ban',
\* is_active=True).update(is_active=False)
deactivate_bans(acts, u, r) ==
    [i \in DOMAIN acts |->
        IF acts[i].type = "ban" /\ acts[i].target = u /\ acts[i].room = r
        THEN [acts[i] EXCEPT !.active = FALSE] ELSE acts[i]]

\* unban_user_room(request, user_id, room_id) by `actor`, as a POST
unban_user_room(actor, target, r) ==
    /\ LET res == IF ~can_moderate_room(actor, r) THEN "forbidden" ELSE "unbanned"
       IN  /\ res = "unbanned" => Len(actions) < MaxActions
           /\ actions' = IF res = "unbanned"
                         THEN NewAction(deactivate_bans(actions, target, r), "unban",
                                        actor, target, r, {})
                         ELSE actions
           /\ ev' = Ev("unban_user_room", 0, target, r, res, [actor |-> actor])
    /\ sent' = <<>> /\ pub' = <<>>
    /\ UNCHANGED <<now, memberships, mutes, mutePk, warnings, profile, messages,
                   notifications, conns, checks>>

\* unban_user(request, user_id, room_id=None) by `actor`, as a POST; r is
\* NoRoom for the global unban
unban_user(actor, target, r) ==
    /\ LET res == IF r # NoRoom /\ ~can_moderate_room(actor, r) THEN "forbidden"
                  ELSE IF r = NoRoom /\ ~is_staff(actor) /\ ~is_superuser(actor)
                  THEN "forbidden"
                  ELSE "unbanned"
       IN  /\ res = "unbanned" => Len(actions) < MaxActions
           /\ profile' = IF res = "unbanned" /\ r = NoRoom
                         THEN [profile EXCEPT ![target].is_banned = FALSE,
                                              ![target].banned_until = {}]
                         ELSE profile
           /\ actions' = IF res = "unbanned"
                         THEN NewAction(IF r = NoRoom THEN actions
                                        ELSE deactivate_bans(actions, target, r),
                                        "unban", actor, target, r, {})
                         ELSE actions
           /\ ev' = Ev("unban_user", 0, target, r, res, [actor |-> actor])
    /\ sent' = <<>> /\ pub' = <<>>
    /\ UNCHANGED <<now, memberships, mutes, mutePk, warnings, messages, notifications,
                   conns, checks>>

\* a variant of delete_mutes that deletes every mute of the room
delete_mutes_of_room(ms, u, r) == {m \in ms : m.room # r}

\* RoomMute.objects.filter(user=u, room=r).delete()
delete_mutes(ms, u, r) == {m \in ms : ~(m.user = u /\ m.room = r)}

\* unmute_user(request, user_id, room_id) by `actor`, as a POST
unmute_user(actor, target, r) ==
    /\ LET rg == room_group_name(r)
           res == IF ~can_moderate_room(actor, r) THEN "forbidden" ELSE "unmuted"
           out == IF res = "unmuted"
                  THEN <<Event("mute_status", target,
                               [is_muted |-> FALSE, expires_at |-> {}])>>
                  ELSE <<>>
       IN  /\ res = "unmuted" => Len(actions) < MaxActions
           /\ CanSend(groups[rg], Len(out))
           /\ mutes' = IF res = "unmuted" THEN delete_mutes(mutes, target, r) ELSE mutes
           /\ actions' = IF res = "unmuted"
                         THEN NewAction(actions, "unmute", actor, target, r, {})
                         ELSE actions
           /\ mailbox' = GroupSend(mailbox, groups[rg], out)
           /\ pub' = [i \in 1 .. Len(out) |-> [group |-> rg, event |-> out[i]]]
           /\ ev' = Ev("unmute_user", 0, target, r, res, [actor |-> actor])
    /\ sent' = <<>>
    /\ UNCHANGED <<now, memberships, mutePk, warnings, profile, messages, notifications,
                   sess, room_users, groups, checks>>

\* kick_user(request, user_id, room_id) by `actor`, as a POST, whose writes are
\* the Membership's deletion (1), the mutes' deletion (2), the ModerationAction
\* (3) and the Notification (4)
kick_user_with(actor, target, r, fault) ==
    /\ LET rg == room_group_name(r)
           res == IF ~can_moderate_room(actor, r) THEN "forbidden"
                  ELSE IF target = actor THEN "self"
                  ELSE IF target = created_by(r) THEN "owner"
                  ELSE IF fault # 0 THEN "error"
                  ELSE "kicked"
           post == res \in {"error", "kicked"}
           out == IF post
                  THEN group_send_after_writes(
                           <<Event("force_disconnect", target,
                                   [action |-> "kick", reason |-> r]),
                             Event("member_removed", target, "")>>, fault)
                  ELSE <<>>
       IN  /\ post /\ performed(3, fault) => Len(actions) < MaxActions
           /\ post /\ performed(4, fault) => Len(notifications) < MaxNotifications
           /\ CanSend(groups[rg], Len(out))
           /\ memberships' = IF post /\ performed(1, fault)
                             THEN delete_membership(memberships, target, r)
                             ELSE memberships
           /\ mutes' = IF post /\ performed(2, fault)
                       THEN delete_mutes(mutes, target, r) ELSE mutes
           /\ actions' = IF post /\ performed(3, fault)
                         THEN NewAction(actions, "kick", actor, target, r, {})
                         ELSE actions
           /\ notifications' = IF post /\ performed(4, fault)
                               THEN NewNotification(notifications, target, "moderation", r)
                               ELSE notifications
           /\ mailbox' = GroupSend(mailbox, groups[rg], out)
           /\ pub' = [i \in 1 .. Len(out) |-> [group |-> rg, event |-> out[i]]]
           /\ ev' = Ev("kick_user", 0, target, r, res, [actor |-> actor, fault |-> fault])
    /\ sent' = <<>>
    /\ UNCHANGED <<now, mutePk, warnings, profile, messages, sess, room_users, groups,
                   checks>>

\* kick_user when no write raises
kick_user(actor, target, r) == kick_user_with(actor, target, r, 0)

\* Warning.objects.create(user, issued_by, room, reason)
NewWarning(ws, u, by, r) ==
    Append(ws, [id |-> Len(ws) + 1, user |-> u, issued_by |-> by, room |-> r])

\* warn_user(request, user_id, room_id=None) by `actor`, as a POST; r is NoRoom
\* for a global warning
warn_user(actor, target, r) ==
    /\ LET rg == room_group_name(r)
           res == IF r # NoRoom /\ ~can_moderate_room(actor, r) THEN "forbidden"
                  ELSE IF r = NoRoom /\ ~is_staff(actor) /\ ~is_superuser(actor)
                  THEN "forbidden"
                  ELSE "warned"
           out == IF res = "warned" /\ r # NoRoom
                  THEN <<Event("warning_received", target, [issued_by |-> actor])>>
                  ELSE <<>>
       IN  /\ res = "warned" => /\ Len(actions) < MaxActions
                                /\ Len(notifications) < MaxNotifications
           /\ CanSend(groups[rg], Len(out))
           /\ warnings' = IF res = "warned" THEN NewWarning(warnings, target, actor, r)
                          ELSE warnings
           /\ actions' = IF res = "warned"
                         THEN NewAction(actions, "warn", actor, target, r, {})
                         ELSE actions
           /\ notifications' = IF res = "warned"
                               THEN NewNotification(notifications, target, "warning", r)
                               ELSE notifications
           /\ mailbox' = GroupSend(mailbox, groups[rg], out)
           /\ pub' = [i \in 1 .. Len(out) |-> [group |-> rg, event |-> out[i]]]
           /\ ev' = Ev("warn_user", 0, target, r, res, [actor |-> actor])
    /\ sent' = <<>>
    /\ UNCHANGED <<now, memberships, mutes, mutePk, profile, messages, sess, room_users,
                   groups, checks>>

\* a variant of soft_delete that deletes the row
soft_delete_row(msgs, id, by, at) ==
    [i \in 1 .. Len(msgs) - 1 |-> IF i < id THEN msgs[i] ELSE msgs[i + 1]]

\* message.is_deleted = True; message.deleted_by = request.user;
\* message.deleted_at = timezone.now(); message.save()
soft_delete(msgs, id, by, at) ==
    [msgs EXCEPT ![id].is_deleted = TRUE, ![id].deleted_by = {by}, ![id].deleted_at = {at}]

\* delete_message(request, message_id) by `actor`, as a POST, of a Message row
\* that exists
delete_message(actor, id) ==
    /\ id \in DOMAIN messages
    /\ LET m == messages[id]
           rg == room_group_name(m.room)
           res == IF ~can_moderate_room(actor, m.room) THEN "forbidden" ELSE "deleted"
           out == IF res = "deleted"
                  THEN <<Event("message_deleted", Anon, [message_id |-> id])>>
                  ELSE <<>>
       IN  /\ res = "deleted" => Len(actions) < MaxActions
           /\ CanSend(groups[rg], Len(out))
           /\ messages' = IF res = "deleted"
                          THEN soft_delete(messages, id, actor, now)
                          ELSE messages
           /\ actions' = IF res = "deleted"
                         THEN NewAction(actions, "delete", actor, m.sender, m.room, {})
                         ELSE actions
           /\ mailbox' = GroupSend(mailbox, groups[rg], out)
           /\ pub' = [i \in 1 .. Len(out) |-> [group |-> rg, event |-> out[i]]]
           /\ ev' = Ev("delete_message", 0, m.sender, m.room, res,
                       [actor |-> actor, message_id |-> id])
    /\ sent' = <<>>
    /\ UNCHANGED <<now, memberships, mutes, mutePk, warnings, profile, notifications,
                   sess, room_users, groups, checks>>

\* ------------------------------------------- resolver calls from HTTP workers
\* an HTTP worker runs the query of is_user_banned_from_room (kind "ban") or of
\* is_user_muted (kind "mute") and holds the row it read
CheckQuery(c, kind, u, r) ==
    /\ checks[c].pc = "idle"
    /\ checks' = [checks EXCEPT ![c] =
                     [pc |-> "read", kind |-> kind, user |-> u, room |-> r,
                      row |-> IF kind = "ban" THEN BanQuery(u, r) ELSE FirstMute(u, r)]]
    /\ ev' = Ev("check_query", c, u, r, "", kind)
    /\ sent' = <<>> /\ pub' = <<>>
    /\ UNCHANGED <<now, store, conns>>

\* the worker tests the expiry of the row it holds, writes the deactivation
\* and returns
CheckResolve(c) ==
    /\ checks[c].pc = "read"
    /\ LET k == checks[c]
           ban == BanResolve(actions, k.row, now)
           mute == MuteResolve(mutes, k.row, now)
           answer == IF k.kind = "ban" THEN ban.banned ELSE mute.muted
           expired == \E x \in k.row : ExpiredAt(x.expires, now)
       IN  /\ actions' = IF k.kind = "ban" THEN ban.actions ELSE actions
           /\ mutes' = IF k.kind = "mute" THEN mute.mutes ELSE mutes
           /\ checks' = [checks EXCEPT ![c] =
                            [pc |-> "done", kind |-> k.kind, user |-> k.user,
                             room |-> k.room, row |-> k.row, answer |-> answer,
                             expired |-> expired,
                             wrote |-> actions' # actions \/ mutes' # mutes]]
           /\ ev' = Ev("check_resolve", c, k.user, k.room,
                       IF answer THEN "denied" ELSE "clear", k.kind)
    /\ sent' = <<>> /\ pub' = <<>>
    /\ UNCHANGED <<now, memberships, mutePk, warnings, profile, messages, notifications, conns>>

\* ------------------------------------------------------------ specifications
\* The access decision of the WebSocket handshake: a connection of "u" while a
\* staff member bans "u" (a room or globally, for good or for a minute), the
\* owner mutes and invites "u", and "u" opens the rooms' pages.
NextAccess ==
    \/ Tick
    \/ \E r \in Slugs, d \in Durations, g \in BOOLEAN : ban_user("staff", "u", r, d, g)
    \/ \E r \in Rooms : mute_user("owner", "u", r, {})
    \/ invite_user("owner", "u", "priv")
    \/ \E r \in Rooms : room_detail("u", r)
    \/ \E s \in Slugs : Connect(1, "u", s)
    \/ Join(1)
    \/ Deliver(1)
    \/ Disconnect(1)

SpecAccess == Init /\ [][NextAccess]_vars

\* Connections coming and going in the public room: "u" and an unauthenticated
\* client connect on any handle while "u" joins and leaves the room and is
\* banned from it.
NextTeardown ==
    \/ join_room("u", "pub")
    \/ leave_room("u", "pub")
    \/ ban_user("owner", "u", "pub", {}, FALSE)
    \/ \E h \in Handles, u \in {"u", Anon}, s \in {"pub", NoRoom} : Connect(h, u, s)
    \/ \E h \in Handles : Join(h)
    \/ \E h \in Handles : Deliver(h)
    \/ \E h \in Handles : Disconnect(h)

SpecTeardown == Init /\ [][NextTeardown]_vars

\* Chatting in the public room: a session of "u" receives 'message' frames
\* while the owner mutes "u" and a staff member bans "u" from the room or
\* globally.
NextChat ==
    \/ Tick
    \/ join_room("u", "pub")
    \/ \E d \in Durations : mute_user("owner", "u", "pub", d)
    \/ \E r \in {"pub", NoRoom}, g \in BOOLEAN : ban_user("staff", "u", r, {}, g)
    \/ Connect(1, "u", "pub")
    \/ Join(1)
    \/ \E f \in MessageFrames : Receive(1, f)
    \/ Deliver(1)
    \/ Disconnect(1)

SpecChat == Init /\ [][NextChat]_vars

\* Forced disconnects and targeted events: two connections to the public room,
\* each of "u" or of the owner, while the owner kicks, bans, mutes, unmutes and
\* warns "u".
NextKick ==
    \/ join_room("u", "pub")
    \/ kick_user("owner", "u", "pub")
    \/ ban_user("owner", "u", "pub", {}, FALSE)
    \/ mute_user("owner", "u", "pub", {})
    \/ unmute_user("owner", "u", "pub")
    \/ warn_user("owner", "u", "pub")
    \/ \E h \in Handles, u \in {"u", "owner"} : Connect(h, u, "pub")
    \/ \E h \in Handles : Join(h)
    \/ \E h \in Handles : Deliver(h)
    \/ \E h \in Handles : Disconnect(h)

SpecKick == Init /\ [][NextKick]_vars

\* websocket.disconnect after the consumer's own close(), as the server sends it
ServerDisconnect(h) == sess[h].pc = "closing" /\ Disconnect(h)

\* the consumer's event loop hands every queued event to its handler, and the
\* server answers the consumer's close() with websocket.disconnect; the client
\* is free never to close
SpecKickFair ==
    /\ SpecKick
    /\ \A h \in Handles : WF_vars(Deliver(h)) /\ WF_vars(ServerDisconnect(h))

\* The moderation commands by an authorised and an unauthorised actor: the
\* owner and the plain member "u" ban, unban, mute, unmute, kick and warn each
\* other and themselves in the public room, staff bans either (in the room or
\* with none) and warns with no room, and each deletes the message "u" posted.
NextModeration ==
    \/ join_room("u", "pub")
    \/ \E u \in {"u", "owner"} : leave_room(u, "pub")
    \/ api_send_message("u", "pub", "text", FALSE)
    \/ \E a \in Users, t \in {"u", "owner"}, r \in {"pub", NoRoom}, g \in BOOLEAN :
          ban_user(a, t, r, {}, g)
    \/ \E a \in {"u", "owner"} : unban_user_room(a, "u", "pub")
    \/ \E a \in {"u", "owner"}, r \in {"pub", NoRoom} : unban_user(a, "u", r)
    \/ \E a \in {"u", "owner"}, t \in {"u", "owner"} : mute_user(a, t, "pub", {})
    \/ \E a \in {"u", "owner"}, t \in {"u", "owner"} : unmute_user(a, t, "pub")
    \/ \E a \in {"u", "owner"}, t \in {"u", "owner"} : kick_user(a, t, "pub")
    \/ \E a \in {"u", "owner"}, t \in {"u", "owner"} : warn_user(a, t, "pub")
    \/ \E a \in {"u", "staff"} : warn_user(a, "u", NoRoom)
    \/ \E a \in {"u", "owner"} : delete_message(a, 1)

SpecModeration == Init /\ [][NextModeration]_vars

\* Expiry on every check path: "u" is banned and muted for a minute in a room,
\* time passes, and "u" connects, sends and requests the HTTP views.
NextExpiry ==
    \/ Tick
    \/ ban_user("owner", "u", "priv", {1}, FALSE)
    \/ mute_user("owner", "u", "priv", {1})
    \/ invite_user("owner", "u", "priv")
    \/ room_detail("u", "priv")
    \/ \E r \in Rooms : join_room("u", r)
    \/ \E c \in {"blank", "text"} : api_send_message("u", "priv", c, FALSE)
    \/ Connect(1, "u", "priv")
    \/ Join(1)
    \/ \E m \in {"blank", "text"} : Receive(1, ObjFrame("message", m, FALSE, FALSE))
    \/ Deliver(1)
    \/ Disconnect(1)

SpecExpiry == Init /\ [][NextExpiry]_vars

\* Concurrent resolver calls: HTTP workers check "u" in the private room while
\* bans and mutes of "u" are issued and expire.
NextResolve ==
    \/ Tick
    \/ \E r \in Rooms, d \in Durations : ban_user("owner", "u", r, d, FALSE)
    \/ \E t \in {"u", "staff"}, d \in Durations : mute_user("owner", t, "priv", d)
    \/ \E c \in 1 .. MaxChecks, k \in {"ban", "mute"} : CheckQuery(c, k, "u", "priv")
    \/ \E c \in 1 .. MaxChecks : CheckResolve(c)

SpecResolve == Init /\ [][NextResolve]_vars

\* Mutes and kicks in both rooms: the owner and a staff member mute "u" and
\* each other's targets, for good or for a minute, while the owner unmutes and
\* kicks, "u" joins the public room and is invited to the private one, and
\* time passes.
NextMute ==
    \/ Tick
    \/ join_room("u", "pub")
    \/ invite_user("owner", "u", "priv")
    \/ \E a \in {"owner", "staff"}, t \in {"u", "staff"}, r \in Rooms, d \in Durations :
          mute_user(a, t, r, d)
    \/ \E r \in Rooms : unmute_user("owner", "u", r)
    \/ \E t \in {"u", "staff"}, r \in Rooms : kick_user("owner", t, r)

SpecMute == Init /\ [][NextMute]_vars

\* Deleting a message: "u" posts a text or an image in either room, a
\* moderator or "u" deletes it, and connections of the owner to either room
\* receive what is published.
NextDelete ==
    \/ Tick
    \/ \E r \in Rooms, c \in {"text", "blank"} : api_send_message("u", r, c, c = "blank")
    \/ \E a \in Users : delete_message(a, 1)
    \/ \E h \in Handles, r \in Rooms : Connect(h, "owner", r)
    \/ \E h \in Handles : Join(h)
    \/ \E h \in Handles : Deliver(h)
    \/ \E h \in Handles : Disconnect(h)

SpecDelete == Init /\ [][NextDelete]_vars

\* Writes that raise: the owner kicks and mutes "u" and "u" sends a text over
\* a connection to the public room, each with any one of its writes raising or
\* none, and a staff member bans "u" with and without a room.
NextFault ==
    \/ join_room("u", "pub")
    \/ \E fault \in 0 .. 4 : kick_user_with("owner", "u", "pub", fault)
    \/ \E fault \in 0 .. 3 : mute_user_with("owner", "u", "pub", {}, fault)
    \/ \E r \in {"pub", NoRoom} : ban_user("staff", "u", r, {}, FALSE)
    \/ Connect(1, "u", "pub")
    \/ Join(1)
    \/ \E m \in {"text", "blank"}, fault \in 0 .. 1 :
          Receive_with(1, ObjFrame("message", m, FALSE, FALSE), fault)
    \/ Deliver(1)
    \/ Disconnect(1)

SpecFault == Init /\ [][NextFault]_vars

\* Talking in the public room: two connections, each of "u" or of the owner,
\* send texts (one to be saved, one already saved over HTTP) and typing
\* notices, and handle what the room's group receives.
NextTalk ==
    \/ join_room("u", "pub")
    \/ \E h \in Handles, u \in {"u", "owner"} : Connect(h, u, "pub")
    \/ \E h \in Handles : Join(h)
    \/ \E h \in Handles, id \in BOOLEAN : Receive(h, ObjFrame("message", "text", FALSE, id))
    \/ \E h \in Handles, t \in BOOLEAN : Receive(h, TypingFrame(t))
    \/ \E h \in Handles : Deliver(h)
    \/ \E h \in Handles : Disconnect(h)

SpecTalk == Init /\ [][NextTalk]_vars

\* Posting and leaving: "u" joins and leaves the public room and is kicked
\* from it by the owner, while a session of "u" in the room sends text
\* messages and "u" posts over HTTP.
NextPosting ==
    \/ Tick
    \/ join_room("u", "pub")
    \/ leave_room("u", "pub")
    \/ kick_user("owner", "u", "pub")
    \/ \E h \in Handles : Connect(h, "u", "pub")
    \/ \E h \in Handles : Join(h)
    \/ \E h \in Handles : Receive(h, ObjFrame("message", "text", FALSE, FALSE))
    \/ api_send_message("u", "pub", "text", FALSE)
    \/ \E h \in Handles : Deliver(h)
    \/ \E h \in Handles : Disconnect(h)

SpecPosting == Init /\ [][NextPosting]_vars

\* The private room: its owner and a plain user invite "u" and the staff
\* member to it, who try its join link and its page, leave it again and
\* connect to it.
NextPrivate ==
    \/ \E u \in {"u", "staff"} : join_room(u, "priv")
    \/ \E u \in {"u", "staff"} : room_detail(u, "priv")
    \/ \E actor \in {"owner", "u"}, u \in {"u", "staff"} : invite_user(actor, u, "priv")
    \/ \E u \in {"u", "staff"} : leave_room(u, "priv")
    \/ \E h \in Handles, u \in {"u", "staff"} : Connect(h, u, "priv")
    \/ \E h \in Handles : Join(h)
    \/ \E h \in Handles : Deliver(h)
    \/ \E h \in Handles : Disconnect(h)

SpecPrivate == Init /\ [][NextPrivate]_vars

\* Bans lifted: the owner bans "u" from the public room, for good or for a
\* minute, and lifts the ban with either command, while "u" joins and opens
\* the room, posts to it and connects to it, an HTTP worker checks the ban in
\* two steps, and time passes.
NextUnban ==
    \/ Tick
    \/ \E d \in Durations : ban_user("owner", "u", "pub", d, FALSE)
    \/ unban_user("owner", "u", "pub")
    \/ unban_user_room("owner", "u", "pub")
    \/ join_room("u", "pub")
    \/ room_detail("u", "pub")
    \/ api_send_message("u", "pub", "text", FALSE)
    \/ CheckQuery(1, "ban", "u", "pub")
    \/ CheckResolve(1)
    \/ Connect(1, "u", "pub")
    \/ Join(1)
    \/ Deliver(1)
    \/ Disconnect(1)

SpecUnban == Init /\ [][NextUnban]_vars

\* Memberships coming and going: "u" and the owner join, open and leave both
\* rooms, the owner invites "u" to the private room, and kicks and bans "u",
\* while time passes.
NextMembership ==
    \/ Tick
    \/ \E u \in {"u", "owner"}, r \in Rooms : join_room(u, r)
    \/ \E u \in {"u", "owner"}, r \in Rooms : room_detail(u, r)
    \/ invite_user("owner", "u", "priv")
    \/ \E u \in {"u", "owner"}, r \in Rooms : leave_room(u, r)
    \/ \E r \in Rooms : kick_user("owner", "u", r)
    \/ \E r \in Rooms, d \in Durations : ban_user("owner", "u", r, d, FALSE)

SpecMembership == Init /\ [][NextMembership]_vars

\* Every inbound frame: a connection of "u" to the public room receives frames
\* of every kind while the owner mutes and warns "u" and time passes.
NextFrames ==
    \/ Tick
    \/ join_room("u", "pub")
    \/ \E d \in Durations : mute_user("owner", "u", "pub", d)
    \/ warn_user("owner", "u", "pub")
    \/ Connect(1, "u", "pub")
    \/ Join(1)
    \/ \E f \in Frames : Receive(1, f)
    \/ Deliver(1)
    \/ Disconnect(1)

SpecFrames == Init /\ [][NextFrames]_vars

\* Messages racing with a mute and with each other: a connection of "u" and one
\* of the owner to the public room send texts, each handler one await at a time,
\* while the owner mutes "u" for good or for a minute and time passes.
NextRace ==
    \/ Tick
    \/ join_room("u", "pub")
    \/ \E d \in Durations : mute_user("owner", "u", "pub", d)
    \/ Connect(1, "u", "pub")
    \/ Connect(2, "owner", "pub")
    \/ \E h \in Handles : Join(h)
    \/ \E h \in Handles : handle_message_check(h)
    \/ \E h \in Handles : handle_message_save(h)
    \/ \E h \in Handles : handle_message_send(h)
    \/ \E h \in Handles : Deliver(h)
    \/ \E h \in Handles : Disconnect(h)

SpecRace == Init /\ [][NextRace]_vars

\* the client of connection h sends a 'heartbeat' frame, which it does until
\* the last instant only
ClientHeartbeat(h) ==
    now < MaxTime /\ Receive(h, ObjFrame("heartbeat", "absent", FALSE, FALSE))

\* websocket.disconnect: of a Joined session on the client's close, which it
\* signals until the last instant only; of any other at any time
ClientClose(h) == (sess[h].pc = "joined" => now < MaxTime) /\ Disconnect(h)

\* Clients that fall silent: connections of "u" and of the owner to the public
\* room send heartbeats and close until the last instant, and from then on
\* neither send a frame nor signal a close.
NextSilent ==
    \/ Tick
    \/ join_room("u", "pub")
    \/ \E h \in Handles, u \in {"u", "owner"} : Connect(h, u, "pub")
    \/ \E h \in Handles : Join(h)
    \/ \E h \in Handles : ClientHeartbeat(h)
    \/ \E h \in Handles : Deliver(h)
    \/ \E h \in Handles : ClientClose(h)

SpecSilent == Init /\ [][NextSilent]_vars

\* time passes, and the consumer's event loop hands every queued event to its
\* handler; no timer of the consumer runs, for it starts none
SpecSilentFair ==
    /\ SpecSilent
    /\ WF_vars(Tick)
    /\ \A h \in Handles : WF_vars(Deliver(h))

\* ------------------------------------------------------------------- claims
\* the store holds a room-scoped ban of u in r with active=true and an expiry
\* that is null or in the future
StoredRoomBan(u, r) ==
    \E i \in DOMAIN actions :
        /\ actions[i].type = "ban" /\ actions[i].target = u /\ actions[i].room = r
        /\ actions[i].active
        /\ (actions[i].expires = {} \/ \E e \in actions[i].expires : e > now)

\* u's profile carries a global ban that is in effect
GlobalBanEffective(u) ==
    /\ profile[u].is_banned
    /\ (profile[u].banned_until = {} \/ \E e \in profile[u].banned_until : e > now)

\* u holds a Membership on r
HoldsMembership(u, r) == \E m \in memberships : m.user = u /\ m.room = r

\* the store holds a Mute of (u, r) whose expiry is null or in the future
StoredMute(u, r) ==
    \E m \in mutes :
        m.user = u /\ m.room = r /\ (m.expires = {} \/ \E e \in m.expires : e > now)

\* connection h is in no group of grps and in no entry of the registry ru, and
\* nothing is queued for it in mb
Unregistered(h, grps, ru, mb) ==
    /\ \A g \in AllGroups : h \notin grps[g]
    /\ \A s \in Slugs, u \in Users : h \notin ru[s][u]
    /\ mb[h] = <<>>

\* C1: a connect by U to R while the store holds a room-scoped ban of U in R
\* (active, expiry null or in the future) is closed: the handle is rejected, is
\* never accepted afterwards, and joins no group, whatever membership, mute or
\* other ban rows exist.
C1_RoomBanDeniesConnect ==
    [][/\ (/\ ev'.op = "connect" /\ ev'.user \in Users
           /\ StoredRoomBan(ev'.user, ev'.room))
          => /\ ev'.res = "denied"
             /\ sess'[ev'.h].pc = "rejected"
             /\ Unregistered(ev'.h, groups', room_users', mailbox')
       /\ \A h \in Handles :
             sess[h].pc \in {"rejected", "closed"} => sess'[h].pc \in {"rejected", "closed"}
      ]_vars

\* C1 witness: a member of the room with a ban in force and a mute was refused
C1_Witness ==
    /\ ev.op = "connect" /\ ev.res = "denied"
    /\ HoldsMembership(ev.user, ev.room)
    /\ StoredRoomBan(ev.user, ev.room)
    /\ StoredMute(ev.user, ev.room)

\* C3: a connect by a user whose profile carries an effective global ban is
\* never allowed, even with a Membership and no room-scoped ban.
C3_GlobalBanDeniesConnect ==
    (ev.op = "connect" /\ ev.user \in Users /\ GlobalBanEffective(ev.user))
        => ev.res # "allowed"

\* the store holds no room-scoped ban of u in r that is active and whose expiry
\* is null, now or in the future
NotRoomBanned(u, r) ==
    ~\E i \in DOMAIN actions :
        /\ actions[i].type = "ban" /\ actions[i].target = u /\ actions[i].room = r
        /\ actions[i].active
        /\ (actions[i].expires = {} \/ \E e \in actions[i].expires : e >= now)

\* the Memberships of (u, r) among the rows ms
MembershipsOf(ms, u, r) == {m \in ms : m.user = u /\ m.room = r}

C9_UnauthenticatedClosedSilently ==
    [][\A h \in Handles :
          (sess'[h].user = Anon /\ sess'[h].pc # "new")
          => /\ sess'[h].pc \in {"rejected", "closed"}
             /\ Unregistered(h, groups', room_users', mailbox')
             /\ \A i \in DOMAIN sent' : sent'[i].to # h
             /\ (ev'.op \in {"connect", "disconnect"} /\ ev'.h = h)
                => /\ pub' = <<>> /\ sent' = <<>>
                   /\ UNCHANGED <<store, room_users, groups, mailbox>>
      ]_vars

\* C9 witness: an unauthenticated connection to a room with a joined session
\* was closed and its disconnect handled
C9_Witness ==
    /\ ev.op = "disconnect" /\ ev.user = Anon /\ sess[ev.h].pc = "closed"
    /\ \E h \in Handles : sess[h].pc = "joined" /\ sess[h].slug = ev.room

\* C10: the disconnect that follows a denied connect of an authenticated user
\* leaves the room_users registry and the user's online_status as they were
\* and publishes no 'offline' status event.
C10_DeniedConnectLeavesState ==
    [][(ev'.op = "disconnect" /\ ev'.res = "rejected" /\ ev'.user \in Users)
       => /\ room_users' = room_users
          /\ profile' = profile
          /\ \A i \in DOMAIN pub' : pub'[i].event.type # "user_status_change"
      ]_vars

\* a 'message' frame as the protocol has it: an object whose 'message', when
\* present, is a string
IsMessageFrame(f) == f.kind = "object" /\ f.type = "message" /\ f.message # "nonstr"

\* C2: when a Joined session of U in R handles a 'message' frame while the
\* store holds a Mute of (U,R) whose expiry is null or in the future, it sends
\* the sender exactly one frame, the error "You are muted in this room",
\* creates no Message row, publishes nothing and stays Joined; the flag the
\* session took at join time plays no part.
C2_MutedMessageRejected ==
    [][(/\ ev'.op = "receive" /\ IsMessageFrame(ev'.arg)
        /\ StoredMute(ev'.user, ev'.room))
       => /\ sent' = <<[to |-> ev'.h, type |-> "error",
                        data |-> "You are muted in this room"]>>
          /\ messages' = messages
          /\ pub' = <<>>
          /\ mailbox' = mailbox
          /\ sess'[ev'.h].pc = "joined"
      ]_vars

\* C2 witness: a text message was refused on a session that joined unmuted and
\* has not yet handled the mute_status event of the mute
C2_Witness ==
    /\ ev.op = "receive" /\ ev.res = "muted" /\ ev.arg.message = "text"
    /\ ~sess[ev.h].is_muted
    /\ \E i \in DOMAIN mailbox[ev.h] : mailbox[ev.h][i].type = "mute_status"

\* C4: no 'message' frame received on a session of U in R ends in a Message
\* row or a room broadcast while the store holds a ban of U that is in force,
\* room-scoped on R or global.
C4_BannedSessionCannotSend ==
    (ev.op = "receive" /\ ev.res \in {"saved_sent", "sent"})
        => ~StoredRoomBan(ev.user, ev.room) /\ ~GlobalBanEffective(ev.user)

\* every ban of u in r stored as active has an expiry strictly in the past
BansAllExpired(u, r) ==
    \A i \in DOMAIN actions :
        (/\ actions[i].type = "ban" /\ actions[i].target = u /\ actions[i].room = r
         /\ actions[i].active)
        => \E e \in actions[i].expires : e < now

\* every Mute of (u, r) in the store has an expiry strictly in the past
MutesAllExpired(u, r) ==
    \A m \in mutes : (m.user = u /\ m.room = r) => \E e \in m.expires : e < now

\* an active ban of u in r, or a Mute of (u, r), is stored with an expiry
\* strictly in the past
ExpiredBanStored(u, r) ==
    \E i \in DOMAIN actions :
        /\ actions[i].type = "ban" /\ actions[i].target = u /\ actions[i].room = r
        /\ actions[i].active /\ \E e \in actions[i].expires : e < now

ExpiredMuteStored(u, r) ==
    \E m \in mutes : m.user = u /\ m.room = r /\ \E e \in m.expires : e < now

\* the HTTP views that ask is_user_banned_from_room
BanViews == {"room_detail", "join_room", "api_send_message"}

\* C5: a ban or mute whose expiry is strictly in the past denies nothing on any
\* path: when every active ban of (U,R) has expired, the WebSocket connect of a
\* member is allowed and no HTTP view answers "banned"; when every Mute of
\* (U,R) has expired, neither the WebSocket message check nor an HTTP view
\* reports U muted.
C5_ExpiredRecordsInactive ==
    [][/\ (/\ ev'.op = "connect" /\ ev'.user \in Users /\ ev'.room \in Rooms
           /\ BansAllExpired(ev'.user, ev'.room)
           /\ HoldsMembership(ev'.user, ev'.room))
          => ev'.res = "allowed"
       /\ (ev'.op \in BanViews /\ BansAllExpired(ev'.user, ev'.room))
          => ev'.res # "banned"
       /\ (ev'.op \in {"receive", "api_send_message"}
           /\ MutesAllExpired(ev'.user, ev'.room))
          => ev'.res # "muted"
       /\ (ev'.op = "room_detail" /\ MutesAllExpired(ev'.user, ev'.room))
          => ~ev'.arg.is_muted
      ]_vars

\* C5 witness: a member with an expired ban and an expired mute still stored
\* was let in by the WebSocket connect
C5_Witness ==
    /\ ev.op = "connect" /\ ev.res = "allowed"
    /\ ExpiredBanStored(ev.user, ev.room)
    /\ ExpiredMuteStored(ev.user, ev.room)

\* C6: once a check has read the records of (U,R), none of them is still
\* stored as active past its expiry: after a connect of a member or an HTTP
\* view no expired ban of (U,R) is active, and after a message check no
\* expired Mute of (U,R) is left.
C6_FirstReadDeactivates ==
    /\ ((\/ ev.op = "connect" /\ ev.user \in Users /\ ev.room \in Rooms
            /\ HoldsMembership(ev.user, ev.room)
         \/ ev.op \in BanViews)
        => ~ExpiredBanStored(ev.user, ev.room))
    /\ ((\/ ev.op = "receive" /\ IsMessageFrame(ev.arg)
         \/ ev.op = "api_send_message" /\ ev.res # "banned"
         \/ ev.op = "room_detail" /\ ev.res = "ok")
        => ~ExpiredMuteStored(ev.user, ev.room))

\* the resolver checks that have returned after finding their row expired
ExpiredChecks(cs) == {c \in DOMAIN cs : cs[c].pc = "done" /\ cs[c].expired}

\* checks c and d were made of the same record
SameRecord(cs, c, d) == cs[c].kind = cs[d].kind /\ cs[c].row = cs[d].row

\* C7: when a resolver check returns after finding its ban or mute expired, it
\* answers not-banned / not-muted; the store then differs from the one before
\* at most in that record, which ends inactive (ban) or deleted (mute), every
\* other record being as it was; it changes the store exactly when the record
\* was still active or present, so of the concurrent checks of one record
\* exactly one performs the deactivation and the others' writes are no-ops.
C7_ConcurrentChecksIdempotent ==
    [][\A c \in 1 .. MaxChecks :
        (checks[c].pc = "read" /\ checks'[c].pc = "done" /\ checks'[c].expired)
        => LET k == checks'[c]
               row == CHOOSE x \in k.row : TRUE
           IN  /\ ~k.answer /\ ev'.res = "clear"
               /\ k.kind = "ban"
                  => /\ actions' = [actions EXCEPT ![row.id].active = FALSE]
                     /\ mutes' = mutes
                     /\ k.wrote = actions[row.id].active
               /\ k.kind = "mute"
                  => /\ mutes' = {m \in mutes : m.id # row.id}
                     /\ actions' = actions
                     /\ k.wrote = (\E m \in mutes : m.id = row.id)
               /\ \A d \in ExpiredChecks(checks) :
                     (SameRecord(checks', c, d) /\ checks[d].wrote) => ~k.wrote
      ]_vars

\* C7 witness: two checks of one expired record have both returned, the mute of
\* another user being in the store; one of them performed the deactivation, the
\* other did not
C7_Witness ==
    \E c, d \in ExpiredChecks(checks) :
        /\ c # d /\ SameRecord(checks, c, d)
        /\ checks[c].wrote /\ ~checks[d].wrote
        /\ \E m \in mutes : m.user # checks[c].user

\* connection h is a Joined session of user u in room r
JoinedSession(ss, h, u, r) == ss[h].pc = "joined" /\ ss[h].user = u /\ ss[h].slug = r

\* a force_disconnect event for the user of connection h waits in h's queue
ForceDisconnectQueued(h) ==
    \E i \in DOMAIN mailbox[h] :
        mailbox[h][i].type = "force_disconnect" /\ mailbox[h][i].user_id = sess[h].user

\* the event types the moderation commands address to one user
TargetedTypes == {"mute_status", "force_disconnect", "warning_received"}

\* C11: when a kick or a room ban of U in R is carried out, a force_disconnect
\* event for U is queued to every session of U that is Joined to R at that
\* moment; every Joined session holding such an event is eventually Closed;
\* and a session leaves Joined for the server's close only by handling a
\* force_disconnect event addressed to its own user.
C11_ForceDisconnectReachesAllHandles ==
    /\ [][(ev'.op \in {"kick_user", "ban_user"} /\ ev'.res \in {"kicked", "banned"})
          => \A h \in Handles :
                JoinedSession(sess, h, ev'.user, ev'.room)
                => /\ Len(mailbox'[h]) = Len(mailbox[h]) + 2
                   /\ mailbox'[h][Len(mailbox[h]) + 1].type = "force_disconnect"
                   /\ mailbox'[h][Len(mailbox[h]) + 1].user_id = ev'.user
         ]_vars
    /\ [][\A h \in Handles :
            (sess[h].pc = "joined" /\ sess'[h].pc = "closing")
            => /\ ev'.op = "deliver" /\ ev'.h = h
               /\ ev'.arg.type = "force_disconnect"
               /\ ev'.arg.user_id = sess[h].user
         ]_vars
    /\ \A h \in Handles :
          (sess[h].pc = "joined" /\ ForceDisconnectQueued(h)) ~> (sess[h].pc = "closed")

\* C11 witness: both connections are sessions of "u", and both have handled the
\* force_disconnect event of one kick or ban
C11_Witness ==
    /\ \A h \in Handles : sess[h].user = "u" /\ sess[h].pc = "closing"
    /\ ev.op = "deliver" /\ ev.res = "force_disconnect"

\* C12: whenever a session leaves Joined because it handled a force_disconnect
\* event, that step sent its client exactly the force_disconnect frame, with
\* the event's action and reason, before the close.
C12_FrameBeforeClose ==
    [][\A h \in Handles :
         (sess[h].pc = "joined" /\ sess'[h].pc = "closing")
         => /\ sent' = <<Frame(h, "force_disconnect", ev'.arg.data)>>
            /\ ev'.arg.data.action \in {"kick", "ban"}
            /\ ev'.arg.data.reason = sess[h].slug
      ]_vars

\* C12 witness: a session handled the force_disconnect event of a kick
C12_Witness ==
    /\ ev.op = "deliver" /\ ev.res = "force_disconnect"
    /\ ev.arg.data.action = "kick"
    /\ sess[ev.h].pc = "closing"

\* C13: the handling of a mute_status, force_disconnect or warning_received
\* event by a session whose user is not the event's target sends nothing and
\* leaves that session, the registry and the groups as they were; and every
\* such event the moderation commands publish names its target user.
C13_TargetedEventsOnlyReachTarget ==
    [][/\ (/\ ev'.op = "deliver" /\ ev'.arg.type \in TargetedTypes
           /\ ev'.arg.user_id # ev'.user)
          => /\ sent' = <<>>
             /\ sess' = sess
             /\ room_users' = room_users /\ groups' = groups
       /\ \A i \in DOMAIN pub' :
             pub'[i].event.type \in TargetedTypes => pub'[i].event.user_id \in Users
      ]_vars

\* C13 witness: a session of the owner has just let pass an event addressed to
\* "u": a warning
C13_Witness ==
    /\ ev.op = "deliver" /\ ev.res = "skipped"
    /\ ev.user = "owner" /\ ev.arg.user_id = "u"
    /\ ev.arg.type = "warning_received"

Unsubscribed(h, grps, ru) ==
    /\ \A g \in AllGroups : h \notin grps[g]
    /\ \A sl \in Slugs, u \in Users : h \notin ru[sl][u]

\* C14: a connection whose session has ended, by disconnect or by an exception
\* that killed its consumer, is in no group and in no entry of room_users.
C14_ClosedSessionUnregistered ==
    \A h \in Handles :
        sess[h].pc \in {"closed", "crashed"} => Unsubscribed(h, groups, room_users)

\* the Joined sessions of user u in room r
JoinedHandles(ss, u, r) == {h \in Handles : JoinedSession(ss, h, u, r)}

\* C16: while a session of U is Joined to R, room_users lists for U in R the
\* handle of a Joined session of U and the stored online_status of U is
\* 'online'; and the disconnect of one session of U never publishes 'offline'
\* for U while another session of U remains Joined to R.
C16_OtherSessionKeepsUserPresent ==
    /\ [](\A h \in Handles :
            sess[h].pc = "joined"
            => /\ room_users[sess[h].slug][sess[h].user] # {}
               /\ room_users[sess[h].slug][sess[h].user]
                     \subseteq JoinedHandles(sess, sess[h].user, sess[h].slug)
               /\ profile[sess[h].user].online_status = "online")
    /\ [][(ev'.op = "disconnect" /\ ev'.user \in Users
           /\ JoinedHandles(sess', ev'.user, ev'.room) # {})
          => \A i \in DOMAIN pub' :
                ~(/\ pub'[i].event.type = "user_status_change"
                  /\ pub'[i].event.user_id = ev'.user
                  /\ pub'[i].event.data = "offline")
         ]_vars

\* C17: unregistering a connection twice leaves the registry as unregistering
\* it once does, and the unregistration made by a disconnect changes no entry
\* of room_users other than one that holds the disconnecting handle.
C17_UnregisterOwnHandleOnly ==
    /\ [](\A sl \in Slugs \ {NoRoom}, u \in Users, h \in Handles :
            unregister(unregister(room_users, sl, u, h), sl, u, h)
                = unregister(room_users, sl, u, h))
    /\ [][ev'.op = "disconnect"
          => \A sl \in Slugs, u \in Users :
                room_users[sl][u] # {ev'.h} => room_users'[sl][u] = room_users[sl][u]
         ]_vars

\* the moderation commands, and those of them that name a target user
ModerationOps ==
    {"ban_user", "unban_user_room", "unban_user", "mute_user", "unmute_user",
     "kick_user", "warn_user", "delete_message"}

TargetOps == ModerationOps \ {"delete_message"}

\* the actor may moderate: global staff or superuser, or, in a room, its owner
\* or a holder of an admin or moderator Membership
Authorised(a, r) ==
    \/ is_staff(a) \/ is_superuser(a)
    \/ /\ r \in Rooms
       /\ \/ created_by(r) = a
          \/ \E m \in memberships :
                m.user = a /\ m.room = r /\ m.role \in {"admin", "moderator"}

\* the step changed no store record and published nothing
NoEffect == store' = store /\ pub' = <<>> /\ mailbox' = mailbox

\* C18: a moderation command whose actor is neither global staff nor, in the
\* room it names, the owner or an admin or moderator member changes no store
\* record and publishes nothing; with no room, so does every command of an
\* actor who is not global staff.
C18_UnauthorisedCommandHasNoEffect ==
    [][(ev'.op \in ModerationOps /\ ~Authorised(ev'.arg.actor, ev'.room))
       => NoEffect /\ ev'.res = "forbidden"
      ]_vars

\* C18 witness: the plain member "u" has tried to kick another member and, with
\* rows in the store, to delete a message
C18_Witness ==
    /\ ev.op \in {"kick_user", "delete_message"}
    /\ ev.arg.actor = "u" /\ is_member("u", ev.room)
    /\ ev.res = "forbidden"
    /\ Len(actions) > 0

C20_SelfAndOwnerTargetRejected ==
    [][(/\ ev'.op \in TargetOps
        /\ \/ ev'.user = ev'.arg.actor
           \/ ev'.room \in Rooms /\ ev'.user = created_by(ev'.room))
       => NoEffect
      ]_vars

\* C21: a successful kick of user U from room R deletes U's Membership in R and
\* any Mute of (U, R), appends one 'kick' ModerationAction, and leaves every
\* earlier ModerationAction row and every record of other users or other rooms
\* as it was.
C21_KickFrame ==
    [][(ev'.op = "kick_user" /\ ev'.res = "kicked") =>
          LET u == ev'.user
              r == ev'.room
              n == Len(actions)
          IN  /\ memberships' = {m \in memberships : ~(m.user = u /\ m.room = r)}
              /\ mutes' = {m \in mutes : ~(m.user = u /\ m.room = r)}
              /\ Len(actions') = n + 1
              /\ \A i \in 1 .. n : actions'[i] = actions[i]
              /\ actions'[n + 1].type = "kick"
              /\ actions'[n + 1].target = u
              /\ actions'[n + 1].room = r
              /\ actions'[n + 1].moderator = ev'.arg.actor
              /\ warnings' = warnings
              /\ messages' = messages
              /\ profile' = profile
              /\ \A i \in DOMAIN notifications : notifications'[i] = notifications[i]]_vars

\* "u" has just been kicked from a room in which the row before the kick's is
\* the mute of "u" there, and still holds the membership of the other room
C21_Witness ==
    /\ ev.op = "kick_user" /\ ev.res = "kicked"
    /\ Len(actions) = 2
    /\ actions[1].type = "mute" /\ actions[1].target = ev.user /\ actions[1].room = ev.room
    /\ actions[2].type = "kick"
    /\ ~HoldsMembership(ev.user, ev.room)
    /\ \A m \in mutes : ~(m.user = ev.user /\ m.room = ev.room)
    /\ \E m \in memberships : m.user = ev.user /\ m.room # ev.room

\* the Mute records of (u, r) in ms
MutesOf(ms, u, r) == {m \in ms : m.user = u /\ m.room = r}

\* C22: after any sequence of mute, unmute and kick commands the store holds at
\* most one Mute per (user, room), and a mute of a pair that is already muted
\* replaces the issuer and the expiry of the record it finds.
C22_OneMutePerUserRoom ==
    /\ [](\A u \in Users, r \in Rooms : Cardinality(MutesOf(mutes, u, r)) <= 1)
    /\ [][(ev'.op = "mute_user" /\ ev'.res = "muted") =>
             LET u == ev'.user
                 r == ev'.room
             IN  /\ \E m \in mutes' :
                        /\ MutesOf(mutes', u, r) = {m}
                        /\ m.muted_by = ev'.arg.actor
                        /\ m.expires = {now + d : d \in ev'.arg.duration}
                        /\ \A o \in MutesOf(mutes, u, r) : m.id = o.id
                 /\ mutes' \ MutesOf(mutes', u, r) = mutes \ MutesOf(mutes, u, r)]_vars

\* a second mute of the same pair, by another moderator and with another
\* expiry, has just replaced the first in the one record of the pair
C22_Witness ==
    /\ ev.op = "mute_user" /\ ev.res = "muted"
    /\ Len(actions) = 2
    /\ actions[1].type = "mute" /\ actions[2].type = "mute"
    /\ actions[1].target = ev.user /\ actions[1].room = ev.room
    /\ actions[1].moderator # actions[2].moderator
    /\ actions[1].expires # actions[2].expires
    /\ mutePk = 1
    /\ \E m \in mutes :
           /\ MutesOf(mutes, ev.user, ev.room) = {m}
           /\ m.muted_by = actions[2].moderator
           /\ m.expires = actions[2].expires

\* C23: the delete-message command never removes the Message row: the row
\* keeps its id, room, sender and content, has its soft-delete flag set and the
\* deleter and the time of deletion recorded, every other row stays as it was,
\* and one message_deleted event with that id is published, to the topic of
\* that message's room only.
C23_SoftDelete ==
    [][(ev'.op = "delete_message" /\ ev'.res = "deleted") =>
          LET id == ev'.arg.message_id
              rg == room_group_name(messages[id].room)
          IN  /\ DOMAIN messages' = DOMAIN messages
              /\ \A i \in DOMAIN messages : i # id => messages'[i] = messages[i]
              /\ messages'[id].id = messages[id].id
              /\ messages'[id].room = messages[id].room
              /\ messages'[id].sender = messages[id].sender
              /\ messages'[id].content = messages[id].content
              /\ messages'[id].is_deleted
              /\ messages'[id].deleted_by = {ev'.arg.actor}
              /\ messages'[id].deleted_at = {now}
              /\ Len(pub') = 1
              /\ pub'[1].group = rg
              /\ pub'[1].event.type = "message_deleted"
              /\ pub'[1].event.data.message_id = id
              /\ \A h \in Handles :
                     mailbox'[h] = IF h \in Readers(groups[rg])
                                   THEN Append(mailbox[h], pub'[1].event)
                                   ELSE mailbox[h]]_vars

\* the message has just been deleted while one connection is joined to its
\* room and another to the other room
C23_Witness ==
    /\ ev.op = "delete_message" /\ ev.res = "deleted"
    /\ messages[1].is_deleted /\ messages[1].content = "text"
    /\ \E h, k \in Handles :
           /\ sess[h].pc = "joined" /\ sess[h].slug = messages[1].room
           /\ mailbox[h] # <<>>
           /\ mailbox[h][Len(mailbox[h])].type = "message_deleted"
           /\ sess[k].pc = "joined" /\ sess[k].slug \in Rooms
           /\ sess[k].slug # messages[1].room

\* C24: the store writes of a moderation command are all-or-nothing: a command
\* that changes the store appends its audit entry, and a ban, mute, kick or
\* warning its notification too, and the audit entry of a ban comes with the
\* ban it records (the profile's flag for a ban with no room, the Membership's
\* removal for a ban of a room).
C24_CommandsAllOrNothing ==
    [][(ev'.op \in ModerationOps /\ store' # store) =>
          LET n == Len(actions)
          IN  /\ Len(actions') = n + 1
              /\ ev'.op \in {"ban_user", "mute_user", "kick_user", "warn_user"} =>
                     Len(notifications') = Len(notifications) + 1
              /\ ev'.op = "ban_user" =>
                     /\ actions'[n + 1].room = NoRoom =>
                            profile'[actions'[n + 1].target].is_banned
                     /\ actions'[n + 1].room \in Rooms =>
                            \A m \in memberships' :
                                ~(m.user = actions'[n + 1].target
                                  /\ m.room = actions'[n + 1].room)]_vars

C26_ActiveRowsAreEnforced ==
    /\ [](\A i \in DOMAIN actions :
              actions[i].active =>
                  /\ actions[i].type = "mute" =>
                         MutesOf(mutes, actions[i].target, actions[i].room) # {}
                  /\ (actions[i].type = "ban" /\ actions[i].room = NoRoom) =>
                         profile[actions[i].target].is_banned)
    /\ [][\A i \in DOMAIN actions :
              /\ i \in DOMAIN actions'
              /\ [actions'[i] EXCEPT !.active = actions[i].active] = actions[i]]_vars

\* the chat_message events of a queue, in the queue's order
ChatEvents(q) == SelectSeq(q, LAMBDA e : e.type = "chat_message")

\* q is the end of the sequence p
IsSuffix(q, p) ==
    /\ Len(q) <= Len(p)
    /\ \A i \in 1 .. Len(q) : q[i] = p[Len(p) - Len(q) + i]

\* C27: two messages accepted from one session reach every session subscribed
\* to the room in the order they were sent: an accepted message is put at the
\* tail of the queue of every subscribed connection, a connection handles the
\* event at the head of its queue and sends a 'message' frame with that
\* event's content, no step reorders a queue, and so the messages that wait at
\* two joined connections of the room wait in the same order.
C27_MessagesInOrder ==
    /\ [](\A h, k \in Handles :
              (sess[h].pc = "joined" /\ sess[k].pc = "joined"
               /\ sess[h].slug = sess[k].slug) =>
                  \/ IsSuffix(ChatEvents(mailbox[h]), ChatEvents(mailbox[k]))
                  \/ IsSuffix(ChatEvents(mailbox[k]), ChatEvents(mailbox[h])))
    /\ [][/\ (ev'.op = "receive" /\ ev'.res \in {"saved_sent", "sent"}) =>
                 /\ Len(pub') = 1
                 /\ pub'[1].event.type = "chat_message"
                 /\ pub'[1].event.user_id = ev'.user
                 /\ \A h \in Readers(groups[room_group_name(ev'.room)]) :
                        mailbox'[h] = Append(mailbox[h], pub'[1].event)
          /\ \A h \in Handles :
                 (ev'.op = "deliver" /\ ev'.h = h) =>
                     /\ ev'.arg = Head(mailbox[h])
                     /\ mailbox'[h] = Tail(mailbox[h])
                     /\ ev'.arg.type = "chat_message" =>
                            sent' = <<Frame(h, "message", ev'.arg.data)>>
          /\ \A h \in Handles :
                 \/ mailbox'[h] = <<>>
                 \/ \E k \in {0, 1}, n \in 0 .. MaxMailbox :
                        /\ Len(mailbox'[h]) = Len(mailbox[h]) - k + n
                        /\ \A i \in 1 .. Len(mailbox[h]) - k :
                               mailbox'[h][i] = mailbox[h][i + k]]_vars

\* a session has just had its second message accepted: the saved one and the
\* one sent with its id wait, in the order sent, in the queue of the sender
\* and in that of another user's connection
C27_Witness ==
    /\ ev.op = "receive" /\ ev.res \in {"saved_sent", "sent"}
    /\ \E h, k \in Handles :
           /\ h # k /\ ev.h = h
           /\ sess[k].pc = "joined" /\ sess[k].user # sess[h].user
           /\ Len(ChatEvents(mailbox[k])) = 2
           /\ ChatEvents(mailbox[k]) = ChatEvents(mailbox[h])
           /\ ChatEvents(mailbox[k])[1] # ChatEvents(mailbox[k])[2]
           /\ ChatEvents(mailbox[k])[1].user_id = ev.user
           /\ ChatEvents(mailbox[k])[2].user_id = ev.user

\* a frame that is not JSON, JSON that is no object, or an object whose
\* 'message' is no string
Malformed(f) == f.kind \in {"notjson", "notobject"} \/ f.message = "nonstr"

\* C28: no inbound frame ends a Joined session: a malformed frame is answered
\* with one 'error' frame, nothing is stored or published for it, and the
\* session stays Joined.
C28_MalformedFrameAnswered ==
    [][(ev'.op = "receive" /\ Malformed(ev'.arg)) =>
          /\ Len(sent') = 1
          /\ sent'[1].type = "error"
          /\ sent'[1].to = ev'.h
          /\ store' = store
          /\ pub' = <<>>
          /\ sess'[ev'.h].pc = "joined"]_vars

\* C29: a Joined session whose client sends no heartbeat any more and never
\* signals a close is in the end treated as disconnected: it does not stay
\* Joined.
C29_SilentSessionTornDown ==
    \A h \in Handles :
        (sess[h].pc = "joined" /\ now = MaxTime) ~> (sess[h].pc # "joined")

\* C30: a typing event published by a session of user U carries U's username
\* and the frame's is_typing, reaches every subscribed connection, is never
\* sent to a client of U, and makes every other user's session send one
\* 'typing' frame with U's username and that is_typing value.
C30_TypingNotEchoed ==
    [][/\ (ev'.op = "receive" /\ ev'.res = "typing") =>
              /\ Len(pub') = 1
              /\ pub'[1].event.type = "typing_indicator"
              /\ pub'[1].event.user_id = ev'.user
              /\ pub'[1].event.data = [username |-> ev'.user,
                                       is_typing |-> ev'.arg.is_typing]
              /\ \A h \in Readers(groups[room_group_name(ev'.room)]) :
                     mailbox'[h] = Append(mailbox[h], pub'[1].event)
       /\ (ev'.op = "deliver" /\ ev'.arg.type = "typing_indicator") =>
              IF ev'.arg.user_id = ev'.user
              THEN sent' = <<>>
              ELSE sent' = <<Frame(ev'.h, "typing",
                                   [username |-> ev'.arg.user_id,
                                    is_typing |-> ev'.arg.data.is_typing])>>
       /\ \A i \in DOMAIN sent' :
              (sent'[i].type = "typing" /\ sent'[i].to \in Handles) =>
                  sent'[i].data.username # sess[sent'[i].to].user]_vars

\* another user's session has just sent the frame of a typing notice whose
\* is_typing is true, while a connection of the typing user is joined
C30_Witness ==
    /\ ev.op = "deliver" /\ ev.res = "typing"
    /\ ev.arg.user_id # ev.user
    /\ ev.arg.data.is_typing
    /\ Len(sent) = 1 /\ sent[1].type = "typing" /\ sent[1].to = ev.h
    /\ sent[1].data.username = ev.arg.user_id
    /\ \E k \in Handles : k # ev.h /\ sess[k].pc = "joined" /\ sess[k].user = ev.arg.user_id

\* C31: under every interleaving of a moderator's mute of (U, R) with U's
\* handle_message in R, no Message row of U in R is created and no 'message'
\* event of U is published to R at a moment when the store holds an unexpired
\* Mute of (U, R).
C31_NoMessageWhileMuted ==
    [][(ev'.op \in {"handle_message_save", "handle_message_send"}) =>
          ~StoredMute(ev'.user, ev'.room)]_vars

\* the ids of the saved messages whose events wait in the queue q, in the
\* queue's order
QueuedIds(q) ==
    LET c == ChatEvents(q)
    IN  [i \in 1 .. Len(c) |-> CHOOSE id \in c[i].data.message_id : TRUE]

C32_BannedHoldsNoMembership ==
    \A u \in Users, r \in Rooms : StoredRoomBan(u, r) => ~HoldsMembership(u, r)

\* C33: handling an inbound frame of any kind on a Joined session leaves every
\* Membership, Mute, ModerationAction, Warning and Notification as it was; the
\* session writes at most one new Message row of its own user and room, and of
\* the profiles only its own user's online status.
C33_FramesWriteOnlyMessages ==
    [][(ev'.op = "receive") =>
          /\ memberships' = memberships
          /\ mutes' = mutes /\ mutePk' = mutePk
          /\ actions' = actions
          /\ warnings' = warnings
          /\ notifications' = notifications
          /\ \/ messages' = messages
             \/ \E row \in {messages'[Len(messages')]} :
                    /\ messages' = Append(messages, row)
                    /\ row.sender = ev'.user /\ row.room = ev'.room
          /\ \A v \in Users :
                 /\ v # ev'.user => profile'[v] = profile[v]
                 /\ [profile'[v] EXCEPT !.online_status = profile[v].online_status]
                        = profile[v]]_vars

\* a text has just been saved for a session whose user has a warning, an
\* audit row, a notification and a Mute that has expired, all still stored
C33_Witness ==
    /\ ev.op = "receive" /\ ev.res = "saved_sent"
    /\ messages # <<>>
    /\ \E m \in mutes : m.user = ev.user /\ m.room = ev.room /\ ExpiredAt(m.expires, now)
    /\ warnings # <<>> /\ Len(actions) = 2 /\ notifications # <<>>

\* C34: after any sequence of join_room, room_detail, invite_user, leave_room,
\* kick and ban the store holds at most one Membership per (user, room);
\* join_room publishes member_added, once and to the room's group, exactly
\* when it created the Membership, and the join of a member publishes nothing
\* and leaves the Memberships as they were.
C34_OneMembershipPerUserRoom ==
    /\ [](\A u \in Users, r \in Rooms :
              Cardinality({m \in memberships : m.user = u /\ m.room = r}) <= 1)
    /\ [][(ev'.op = "join_room") =>
             LET u == ev'.user
                 r == ev'.room
                 created == memberships' # memberships
             IN  /\ HoldsMembership(u, r) => ~created /\ pub' = <<>>
                 /\ created =>
                        /\ memberships' = memberships \cup
                                              {[user |-> u, room |-> r, role |-> "member"]}
                        /\ Len(pub') = 1
                        /\ pub'[1].group = room_group_name(r)
                        /\ pub'[1].event.type = "member_added"
                        /\ pub'[1].event.user_id = u
                 /\ ~created => pub' = <<>>]_vars

\* a member of the public room has just asked to join it again
C34_Witness ==
    /\ ev.op = "join_room" /\ ev.res = "already"
    /\ ev.user # created_by(ev.room)
    /\ Cardinality({m \in memberships : m.user = ev.user /\ m.room = ev.room}) = 1
    /\ pub = <<>>

\* the ids of the 'ban' rows of (u, r) in acts that are active
ActiveBansIn(acts, u, r) ==
    {i \in DOMAIN acts : /\ acts[i].type = "ban" /\ acts[i].target = u
                         /\ acts[i].room = r /\ acts[i].active}

\* C35: a room-scoped unban of U in R leaves no active 'ban' ModerationAction
\* of (U, R) and appends exactly one 'unban' entry; as long as no ban of (U, R)
\* is issued none becomes active again, and every ban check of (U, R) made
\* then, on any path, reports not banned, so that a connection of U, a member,
\* is not refused.
C35_UnbanLiftsBan ==
    [][/\ (ev'.op \in {"unban_user", "unban_user_room"} /\ ev'.res = "unbanned"
           /\ ev'.room \in Rooms) =>
              /\ ActiveBansIn(actions', ev'.user, ev'.room) = {}
              /\ Len(actions') = Len(actions) + 1
              /\ actions'[Len(actions')].type = "unban"
              /\ actions'[Len(actions')].target = ev'.user
              /\ actions'[Len(actions')].room = ev'.room
              /\ \A i \in DOMAIN actions :
                     [actions'[i] EXCEPT !.active = actions[i].active] = actions[i]
       /\ \A u \in Users, r \in Rooms :
              ActiveBansIn(actions, u, r) = {} =>
                  /\ ~(ev'.op = "ban_user" /\ ev'.user = u) =>
                         ActiveBansIn(actions', u, r) = {}
                  /\ (ev'.op \in {"join_room", "room_detail", "api_send_message"}
                      /\ ev'.user = u /\ ev'.room = r) => ev'.res # "banned"
                  /\ (ev'.op = "connect" /\ ev'.user = u /\ ev'.room = r
                      /\ is_member(u, r)) => ev'.res = "allowed"
                  /\ (ev'.op = "check_query" /\ ev'.user = u /\ ev'.room = r) =>
                         checks'[ev'.h].row = {}]_vars

\* "u", banned from the room for good and then unbanned, has joined the room
\* again and has just been let in on the WebSocket
C35_Witness ==
    /\ ev.op = "connect" /\ ev.res = "allowed"
    /\ Len(actions) = 2
    /\ actions[1].type = "ban" /\ actions[1].target = ev.user
    /\ actions[1].room = ev.room /\ actions[1].expires = {} /\ ~actions[1].active
    /\ actions[2].type = "unban"

\* the ban test of check_room_access: some active 'ban' row of (u, r) has an
\* expiry that is null or later than now
WsBanned(u, r) ==
    \E i \in ActiveBanIds(u, r) : ExpiresGtNowOrNull(actions[i].expires, now)

\* C36: on the same store and at the same time the WebSocket resolver and the
\* HTTP resolver give the same answer for every user and room: the ban test of
\* check_room_access as is_user_banned_from_room, and check_mute_status as
\* is_user_muted.
C36_ResolversAgree ==
    \A u \in Users, r \in Rooms :
        /\ WsBanned(u, r) = is_user_banned_from_room(u, r).banned
        /\ check_mute_status(u, r) = is_user_muted(mutes, u, r).muted

\* C37: every 'message' event published with a non-empty text carries the id
\* of a Message row of that room whose sender is the publishing session's
\* user, whatever fields the frame carries.
C37_PublishedTextIsPersisted ==
    [][\A i \in DOMAIN pub' :
           (ev'.op = "receive" /\ pub'[i].event.type = "chat_message"
            /\ pub'[i].event.data.message = "text") =>
               \E n \in DOMAIN messages' :
                   /\ messages'[n].id \in pub'[i].event.data.message_id
                   /\ messages'[n].room = ev'.room
                   /\ messages'[n].sender = ev'.user
                   /\ pub'[i].event.user_id = ev'.user]_vars

\* C38: a Message row of room R with sender U is created, over the WebSocket
\* or over HTTP, only when U holds a Membership in R, and a 'message' event of
\* U is published to R only when U holds one.
C38_OnlyMembersPost ==
    [][/\ \A n \in DOMAIN messages' :
              n \notin DOMAIN messages =>
                  HoldsMembership(messages'[n].sender, messages'[n].room)
       /\ \A i \in DOMAIN pub' :
              pub'[i].event.type = "chat_message" =>
                  HoldsMembership(pub'[i].event.user_id, ev'.room)]_vars

\* C40: in a private room a user who is not the owner obtains a Membership
\* only through invite_user by an actor allowed to moderate the room; join_room
\* and room_detail create no Membership there; and a connect to the room's
\* WebSocket by a user who holds no Membership is closed, the handle never
\* being accepted afterwards.
C40_PrivateByInvitationOnly ==
    [][/\ \A m \in memberships' \ memberships :
              (room_type(m.room) = "private" /\ m.user # created_by(m.room)) =>
                  /\ ev'.op = "invite_user"
                  /\ ev'.user = m.user /\ ev'.room = m.room
                  /\ can_moderate_room(ev'.arg, m.room)
       /\ (/\ ev'.op \in {"join_room", "room_detail"}
           /\ ev'.room \in Rooms /\ room_type(ev'.room) = "private")
          => memberships' = memberships
       /\ (/\ ev'.op = "connect" /\ ev'.user \in Users
           /\ ev'.room \in Rooms /\ room_type(ev'.room) = "private"
           /\ ~HoldsMembership(ev'.user, ev'.room))
          => /\ ev'.res = "denied"
             /\ sess'[ev'.h].pc = "rejected"
             /\ Unregistered(ev'.h, groups', room_users', mailbox')
       /\ \A h \in Handles :
              sess[h].pc = "rejected" => sess'[h].pc \in {"rejected", "closed"}
      ]_vars

\* C40 witness: a user whose connect to the private room was refused has now
\* been invited to it by the owner and holds a Membership
C40_Witness ==
    /\ ev.op = "invite_user" /\ ev.res = "invited" /\ ev.room = "priv"
    /\ ev.arg = created_by("priv") /\ ev.user # created_by("priv")
    /\ HoldsMembership(ev.user, "priv")
    /\ \E h \in Handles :
           sess[h].pc = "rejected" /\ sess[h].user = ev.user /\ sess[h].slug = "priv"

====
